---- MODULE Spec2Model ----
(***************************************************************************)
(* mcp-architector: the JSON document store (storage.ts) and the tool      *)
(* handlers (index.js) that keep a project's architecture document and its *)
(* module-details documents.  One project directory is modelled; every     *)
(* storage function touches only the directory of the project id it is     *)
(* given.  A handler is a sequence of steps, one per awaited file-system   *)
(* operation: a step performs the pending operation and then runs the      *)
(* handler's synchronous code up to the next awaited operation.            *)
(* The script tools, the storage functions called one by one (with the     *)
(* JSON text of a file told apart from the object written), the            *)
(* resolution of the project id, the listing of a directory by file name   *)
(* and the making of the project directories have sections and             *)
(* specifications of their own further down.                               *)
(***************************************************************************)
EXTENDS Integers, Sequences, FiniteSets, TLC

\* ------------------------------------------------------------------ bounds
MaxCalls == 3        \* at most MaxCalls tool calls are issued
MaxClock == 1        \* the clock reads 0..MaxClock
MaxFaults == 1       \* at most MaxFaults file operations fail with an I/O error

Slots == {1, 2}      \* handler invocations that may be in flight together
Names == {"auth", "db"}

\* ------------------------------------------------------------------ values
Undefined == "undefined"            \* a JS undefined: the field is omitted from the JSON
Absent == [kind |-> "absent"]       \* no such file (ENOENT); a storage read returns null
Corrupt == [kind |-> "corrupt"]     \* a file whose content does not parse (truncated write)
NoModule == [id |-> 0]              \* Array.prototype.find returned undefined
NoResult == [kind |-> "none"]
NoId == 0                           \* moduleId not assigned yet
Null == [kind |-> "null"]           \* a JS null
ProjectId == "default-project"      \* the project id the handlers resolve to

IsDoc(file) == file.kind = "doc"

\* The modules argument of set-project-architecture (zod: name, description,
\* inputs?, outputs?).
AuthInput == [name |-> "auth", description |-> "s1", inputs |-> "in", outputs |-> "out"]
DbInput == [name |-> "db", description |-> "s2", inputs |-> Undefined, outputs |-> Undefined]

\* The module lists tried: none, one, two names, one name twice.
ArchModuleLists == {<<>>, <<AuthInput>>, <<AuthInput, DbInput>>, <<AuthInput, AuthInput>>}

ArchDescs == {"p1"}
DataFlows == {Undefined, "flow"}

\* The optional arguments of set-module-details: an absent array is <<>>, a
\* given one is <<array>>; notes is a string or undefined.
DetailInputs ==
  { [description |-> "d1", inputs |-> "min", outputs |-> "mout", dependencies |-> <<>>,
     files |-> <<>>, usageExamples |-> <<>>, notes |-> Undefined],
    [description |-> "d2", inputs |-> "min", outputs |-> "mout",
     dependencies |-> << <<"db">> >>, files |-> << <<"auth.ts">> >>,
     usageExamples |-> << <<"login">> >>, notes |-> "n1"] }

NoInputs == [kind |-> "none"]

VARIABLES
  arch,     \* <base>/<projectId>/architecture.json: Absent, Corrupt or the document
  mods,     \* <base>/<projectId>/modules/<id>.json: id -> Corrupt or the document
  dirs,     \* the directories of the project that exist
  nextId,   \* the next value of the id supplier (uuidv4)
  now,      \* the last reading of the clock (new Date())
  ncalls,   \* tool calls issued so far
  faults,   \* I/O errors injected so far
  calls,    \* per slot, the handler invocation in it
  prev,     \* the last completed writing call that a later call has followed
  scripts,  \* <base>/<projectId>/scripts/<id>.json: id -> Corrupt or the document
  envProjectId,     \* process.env.MCP_PROJECT_ID
  globalProjectId   \* index.js: let globalProjectId

vars == <<arch, mods, dirs, nextId, now, ncalls, faults, calls, prev,
          scripts, envProjectId, globalProjectId>>

\* ------------------------------------------------------------ storage.ts
\* initializeProjectStorage: ensureDirectoryExists(projectDir), then
\* ensureDirectoryExists(projectDir/modules); mkdir is recursive.  No operation
\* removes a directory, so the directory checks of a write and its writeFile
\* are taken as one step.
initializeProjectStorage(d) == d \cup {"root", "modules"}

\* readArchitecture / readModule: ENOENT becomes null (Absent), a document is
\* parsed, anything else (here: unparseable content) is thrown.
readThrows(file) == file = Corrupt

readModule(files, moduleId) ==
  IF moduleId \in DOMAIN files THEN files[moduleId] ELSE Absent

\* Mutant: the write replaces the modules directory by the one file.
writeModule_Only(files, moduleDetails) ==
  (moduleDetails.moduleId :> moduleDetails) @@ <<>>

\* writeModule: the file modules/<moduleId>.json is replaced.
writeModule(files, moduleDetails) ==
  (moduleDetails.moduleId :> moduleDetails) @@ files

\* deleteModule: unlink, ENOENT ignored.
deleteModule(files, moduleId) ==
  [i \in DOMAIN files \ {moduleId} |-> files[i]]

\* listModules: the ids of the files in modules/, [] when the directory is missing.
listModules == IF "modules" \in dirs THEN DOMAIN mods ELSE {}

\* ------------------------------------------------------------ index.js
\* architecture.modules.find((m) => m.name === name): the index of the first
\* match, 0 when there is none.
\* Mutant: the last summary of that name is found, not the first.
FindIndex_Last(modules, name) ==
  IF \E i \in 1..Len(modules) : modules[i].name = name
  THEN CHOOSE i \in 1..Len(modules) :
         /\ modules[i].name = name
         /\ \A j \in (i + 1)..Len(modules) : modules[j].name # name
  ELSE 0

FindIndex(modules, name) ==
  IF \E i \in 1..Len(modules) : modules[i].name = name
  THEN CHOOSE i \in 1..Len(modules) :
         /\ modules[i].name = name
         /\ \A j \in 1..(i - 1) : modules[j].name # name
  ELSE 0

Find(modules, name) ==
  IF FindIndex(modules, name) = 0 THEN NoModule ELSE modules[FindIndex(modules, name)]

\* Mutant: one uuid is minted for the whole call, not one per module.
ModuleSummaries_OneId(modules, firstId, t) ==
  [i \in 1..Len(modules) |->
     [id |-> firstId,
      name |-> modules[i].name,
      description |-> modules[i].description,
      inputs |-> modules[i].inputs,
      outputs |-> modules[i].outputs,
      createdAt |-> t,
      updatedAt |-> t]]

\* set-project-architecture: every module of the input gets a fresh id and
\* fresh timestamps.
ModuleSummaries(modules, firstId, t) ==
  [i \in 1..Len(modules) |->
     [id |-> firstId + i - 1,
      name |-> modules[i].name,
      description |-> modules[i].description,
      inputs |-> modules[i].inputs,
      outputs |-> modules[i].outputs,
      createdAt |-> t,
      updatedAt |-> t]]

NewArchitecture(description, modules, dataFlow, firstId, t) ==
  [kind |-> "doc",
   projectId |-> ProjectId,
   description |-> description,
   modules |-> ModuleSummaries(modules, firstId, t),
   dataFlow |-> dataFlow,
   createdAt |-> t,
   updatedAt |-> t]

\* Mutant: the id of an existing summary is never reused.
ModuleIdFor_AlwaysFresh(architecture, name, freshId) == freshId

\* set-module-details, architecture found: the id of the existing summary or
\* a fresh one.
ModuleIdFor(architecture, name, freshId) ==
  IF FindIndex(architecture.modules, name) # 0
  THEN Find(architecture.modules, name).id
  ELSE freshId

\* Mutant: a summary is pushed even when one of that name exists.
UpdateOrAddModule_AlwaysPush(architecture, name, description, moduleId, t) ==
  [architecture EXCEPT
     !.modules = Append(@, [id |-> moduleId,
                            name |-> name,
                            description |-> description,
                            inputs |-> Undefined,
                            outputs |-> Undefined,
                            createdAt |-> t,
                            updatedAt |-> t]),
     !.updatedAt = t]

\* Mutant: the pushed summary gets an id of its own (a second uuidv4()).
UpdateOrAddModule_OwnId(architecture, name, description, moduleId, t) ==
  LET i == FindIndex(architecture.modules, name) IN
  [architecture EXCEPT
     !.modules =
        IF i # 0
        THEN [@ EXCEPT ![i] = [@ EXCEPT !.description = description, !.updatedAt = t]]
        ELSE Append(@, [id |-> moduleId + 1,
                        name |-> name,
                        description |-> description,
                        inputs |-> Undefined,
                        outputs |-> Undefined,
                        createdAt |-> t,
                        updatedAt |-> t]),
     !.updatedAt = t]

\* Mutant: the existing summary is replaced by a new object, which loses its
\* inputs, outputs and createdAt.
UpdateOrAddModule_Replaces(architecture, name, description, moduleId, t) ==
  LET i == FindIndex(architecture.modules, name)
      fresh == [id |-> moduleId,
                name |-> name,
                description |-> description,
                inputs |-> Undefined,
                outputs |-> Undefined,
                createdAt |-> t,
                updatedAt |-> t]
  IN
  [architecture EXCEPT
     !.modules = IF i # 0 THEN [@ EXCEPT ![i] = fresh] ELSE Append(@, fresh),
     !.updatedAt = t]

\* Mutant: a new summary is put at the head of the list (unshift).
UpdateOrAddModule_Unshift(architecture, name, description, moduleId, t) ==
  LET i == FindIndex(architecture.modules, name) IN
  [architecture EXCEPT
     !.modules =
        IF i # 0
        THEN [@ EXCEPT ![i] = [@ EXCEPT !.description = description, !.updatedAt = t]]
        ELSE <<[id |-> moduleId,
                name |-> name,
                description |-> description,
                inputs |-> Undefined,
                outputs |-> Undefined,
                createdAt |-> t,
                updatedAt |-> t]>> \o @,
     !.updatedAt = t]

\* set-module-details, architecture found: the existing summary gets the new
\* description and updatedAt, or a new summary is pushed; the architecture's
\* updatedAt is stamped.
UpdateOrAddModule(architecture, name, description, moduleId, t) ==
  LET i == FindIndex(architecture.modules, name) IN
  [architecture EXCEPT
     !.modules =
        IF i # 0
        THEN [@ EXCEPT ![i] = [@ EXCEPT !.description = description, !.updatedAt = t]]
        ELSE Append(@, [id |-> moduleId,
                        name |-> name,
                        description |-> description,
                        inputs |-> Undefined,
                        outputs |-> Undefined,
                        createdAt |-> t,
                        updatedAt |-> t]),
     !.updatedAt = t]

OrEmptyList(opt) == IF opt = <<>> THEN <<>> ELSE opt[1]
OrEmptyString(s) == IF s \in {Undefined, ""} THEN "" ELSE s

\* Mutant: notes is stored as given, without the || "" default.
NewModuleDetails_NoDefault(moduleId, name, description, in, t) ==
  [kind |-> "doc",
   moduleId |-> moduleId,
   name |-> name,
   description |-> description,
   inputs |-> in.inputs,
   outputs |-> in.outputs,
   dependencies |-> OrEmptyList(in.dependencies),
   files |-> OrEmptyList(in.files),
   usageExamples |-> OrEmptyList(in.usageExamples),
   notes |-> in.notes,
   createdAt |-> t,
   updatedAt |-> t]

\* set-module-details: the ModuleDetails document.
NewModuleDetails(moduleId, name, description, in, t) ==
  [kind |-> "doc",
   moduleId |-> moduleId,
   name |-> name,
   description |-> description,
   inputs |-> in.inputs,
   outputs |-> in.outputs,
   dependencies |-> OrEmptyList(in.dependencies),
   files |-> OrEmptyList(in.files),
   usageExamples |-> OrEmptyList(in.usageExamples),
   notes |-> OrEmptyString(in.notes),
   createdAt |-> t,
   updatedAt |-> t]

\* Mutant: the summary is not filtered out.
RemoveFromArchitecture_KeepsAll(architecture, moduleId, t) ==
  [architecture EXCEPT !.updatedAt = t]

\* delete-module: the summaries with the deleted id are filtered out and the
\* architecture's updatedAt is stamped.
RemoveFromArchitecture(architecture, moduleId, t) ==
  [architecture EXCEPT
     !.modules = SelectSeq(@, LAMBDA m : m.id # moduleId),
     !.updatedAt = t]

\* ------------------------------------------------------------ invocations
NoCall ==
  [op |-> "none", pc |-> "idle", name |-> Undefined, description |-> Undefined,
   in |-> NoInputs, architecture |-> Absent, module |-> NoModule, moduleId |-> NoId,
   moduleDetails |-> Absent, outcome |-> "none", result |-> NoResult, fault |-> FALSE,
   scriptIds |-> {}, scriptDoc |-> Absent,
   pre |-> [arch |-> Absent, mods |-> <<>>, nextId |-> 0, scripts |-> <<>>]]

NoPrev ==
  [op |-> "none", name |-> Undefined, description |-> Undefined, outcome |-> "none",
   result |-> NoResult, moduleId |-> NoId, hadArchitecture |-> FALSE, nameCount |-> 0]

Count(modules, name) == Cardinality({i \in 1..Len(modules) : modules[i].name = name})

\* What a later call needs to know of the completed call c it follows.
Summary(c) ==
  [op |-> c.op, name |-> c.name, description |-> c.description, outcome |-> c.outcome,
   result |-> c.result, moduleId |-> c.moduleId,
   hadArchitecture |-> IsDoc(c.pre.arch),
   nameCount |-> IF IsDoc(c.pre.arch) THEN Count(c.pre.arch.modules, c.name) ELSE 0]

Free(s) == calls[s].pc \in {"idle", "done"}
Writing(c) == c.op \in {"setArchitecture", "setModuleDetails", "deleteModule", "setScript"}

\* A new invocation takes the lowest free slot: the state it starts from is
\* recorded, and the completed writing call it follows becomes prev.
Begin(s, c) ==
  /\ Free(s)
  /\ \A r \in Slots : r < s => ~Free(r)
  /\ ncalls < MaxCalls
  /\ ncalls' = ncalls + 1
  /\ calls' = [calls EXCEPT ![s] =
                 [c EXCEPT !.pre = [arch |-> arch, mods |-> mods, nextId |-> nextId,
                                    scripts |-> scripts]]]
  /\ prev' = IF Writing(calls[s]) THEN Summary(calls[s]) ELSE prev

\* The handler returns (outcome "returned") or an error propagates out of it
\* (outcome "thrown"); its in-memory documents are dropped.
Finish(c, outcome, result) ==
  [c EXCEPT !.pc = "done", !.outcome = outcome, !.result = result,
            !.architecture = Absent, !.moduleDetails = Absent,
            !.scriptIds = {}, !.scriptDoc = Absent]

\* new Date(): the clock never runs backwards.  One reading serves a whole
\* synchronous block of a handler.
Readings == now..MaxClock

Init ==
  /\ arch = Absent
  /\ mods = <<>>
  /\ dirs = {}
  /\ nextId = 1
  /\ now = 0
  /\ ncalls = 0
  /\ faults = 0
  /\ calls = [s \in Slots |-> NoCall]
  /\ prev = NoPrev
  /\ scripts = <<>>
  /\ envProjectId = Undefined
  /\ globalProjectId = Null

\* The shape of the documents the handlers store (types.ts) and of the
\* counters.
ModuleSummaryOK(m) ==
  /\ m.id \in 1..(nextId - 1)
  /\ m.name \in Names
  /\ m.createdAt \in 0..MaxClock
  /\ m.updatedAt \in m.createdAt..MaxClock

ProjectArchitectureOK(a) ==
  \/ a \in {Absent, Corrupt}
  \/ /\ IsDoc(a)
     /\ a.projectId = ProjectId
     /\ a.description \in ArchDescs
     /\ a.dataFlow \in DataFlows
     /\ \A i \in 1..Len(a.modules) : ModuleSummaryOK(a.modules[i])
     /\ a.updatedAt \in a.createdAt..MaxClock

ModuleDetailsOK(id, d) ==
  \/ d = Corrupt
  \/ /\ IsDoc(d)
     /\ d.moduleId = id
     /\ d.name \in Names
     /\ d.notes # Undefined
     /\ d.createdAt = d.updatedAt

ScriptDocumentationOK(id, d) ==
  \/ d = Corrupt
  \/ /\ IsDoc(d)
     /\ d.scriptId = id
     /\ d.notes # Undefined
     /\ d.createdAt = d.updatedAt

TypeOK ==
  /\ ProjectArchitectureOK(arch)
  /\ \A id \in DOMAIN mods : id \in 1..(nextId - 1) /\ ModuleDetailsOK(id, mods[id])
  /\ dirs \subseteq {"root", "modules", "scripts"}
  /\ (arch # Absent \/ DOMAIN mods # {}) => {"root", "modules"} \subseteq dirs
  /\ DOMAIN scripts # {} => dirs = {"root", "modules", "scripts"}
  /\ \A id \in DOMAIN scripts : id \in 1..(nextId - 1) /\ ScriptDocumentationOK(id, scripts[id])
  /\ now \in 0..MaxClock
  /\ ncalls \in 0..MaxCalls
  /\ faults \in 0..MaxFaults
  /\ \A s \in Slots : calls[s].pc \in {"startup", "idle", "readArch", "writeArch", "writeMod",
                                       "readMod", "unlink", "writeScript", "listScripts",
                                       "readScript", "readScripts", "done"}

\* ---------------------------------------------- set-project-architecture
\* The handler builds the whole document (fresh ids, fresh timestamps) before
\* its only awaited operation, writeArchitecture.
CallSetArchitecture(s, description, modules, dataFlow) ==
  \E t \in Readings :
    /\ Begin(s, [NoCall EXCEPT
                   !.op = "setArchitecture", !.pc = "writeArch",
                   !.description = description,
                   !.in = [modules |-> modules, dataFlow |-> dataFlow],
                   !.architecture =
                      NewArchitecture(description, modules, dataFlow, nextId, t)])
    /\ nextId' = nextId + Len(modules)
    /\ now' = t
    /\ UNCHANGED <<arch, mods, dirs, faults, scripts, envProjectId, globalProjectId>>

\* Mutant: the details files that the new module list does not refer to
\* are removed.
SetArchitectureWrite_Prunes(s) ==
  LET c == calls[s] IN
  /\ c.op = "setArchitecture" /\ c.pc = "writeArch"
  /\ arch' = c.architecture
  /\ dirs' = initializeProjectStorage(dirs)
  /\ mods' = [id \in {i \in DOMAIN mods :
                        \E k \in 1..Len(c.architecture.modules) :
                          c.architecture.modules[k].id = i} |-> mods[id]]
  /\ calls' = [calls EXCEPT ![s] =
                 Finish(c, "returned",
                        [kind |-> "saved", count |-> Len(c.in.modules)])]
  /\ UNCHANGED <<nextId, now, ncalls, faults, prev,
                 scripts, envProjectId, globalProjectId>>

SetArchitectureWrite(s) ==
  LET c == calls[s] IN
  /\ c.op = "setArchitecture" /\ c.pc = "writeArch"
  /\ arch' = c.architecture
  /\ dirs' = initializeProjectStorage(dirs)
  /\ calls' = [calls EXCEPT ![s] =
                 Finish(c, "returned",
                        [kind |-> "saved", count |-> Len(c.in.modules)])]
  /\ UNCHANGED <<mods, nextId, now, ncalls, faults, prev,
                 scripts, envProjectId, globalProjectId>>

\* ---------------------------------------------------- set-module-details
CallSetModuleDetails(s, name, in) ==
  /\ Begin(s, [NoCall EXCEPT
                 !.op = "setModuleDetails", !.pc = "readArch",
                 !.name = name, !.description = in.description, !.in = in])
  /\ UNCHANGED <<arch, mods, dirs, nextId, now, faults,
                 scripts, envProjectId, globalProjectId>>

\* Mutant: the details are written first, whether or not there is an
\* architecture.
AfterReadArchitecture_DetailsFirst(c, architecture, freshId, t) ==
  IF IsDoc(architecture)
  THEN [c EXCEPT !.pc = "writeMod",
                 !.moduleId = ModuleIdFor(architecture, c.name, freshId),
                 !.module = Find(architecture.modules, c.name),
                 !.moduleDetails =
                    NewModuleDetails(ModuleIdFor(architecture, c.name, freshId),
                                     c.name, c.description, c.in, t)]
  ELSE [c EXCEPT !.pc = "writeMod",
                 !.moduleId = freshId,
                 !.moduleDetails =
                    NewModuleDetails(freshId, c.name, c.description, c.in, t)]

\* The in-memory state of set-module-details when readArchitecture has
\* returned `architecture` at clock reading t: the module id is picked, and
\* either the updated architecture is ready to be written or, with no
\* architecture, the details are.
AfterReadArchitecture(c, architecture, freshId, t) ==
  IF IsDoc(architecture)
  THEN [c EXCEPT !.pc = "writeArch",
                 !.moduleId = ModuleIdFor(architecture, c.name, freshId),
                 !.module = Find(architecture.modules, c.name),
                 !.architecture =
                    UpdateOrAddModule(architecture, c.name, c.description,
                                      ModuleIdFor(architecture, c.name, freshId), t)]
  ELSE [c EXCEPT !.pc = "writeMod",
                 !.moduleId = freshId,
                 !.moduleDetails =
                    NewModuleDetails(freshId, c.name, c.description, c.in, t)]

SetModuleDetailsRead(s) ==
  LET c == calls[s] IN
  /\ c.op = "setModuleDetails" /\ c.pc = "readArch"
  /\ IF readThrows(arch)
     THEN /\ calls' = [calls EXCEPT ![s] = Finish(c, "thrown", [kind |-> "error"])]
          /\ UNCHANGED <<nextId, now>>
     ELSE \E t \in Readings :
          /\ calls' = [calls EXCEPT ![s] = AfterReadArchitecture(c, arch, nextId, t)]
          /\ nextId' = IF AfterReadArchitecture(c, arch, nextId, t).moduleId = nextId
                       THEN nextId + 1 ELSE nextId
          /\ now' = t
  /\ UNCHANGED <<arch, mods, dirs, ncalls, faults, prev,
                 scripts, envProjectId, globalProjectId>>

\* Mutant: the architecture and the details are written in one step.
SetModuleDetailsWriteArch_Both(s) ==
  LET c == calls[s] IN
  /\ c.op = "setModuleDetails" /\ c.pc = "writeArch"
  /\ arch' = c.architecture
  /\ dirs' = initializeProjectStorage(dirs)
  /\ \E t \in Readings :
       /\ mods' = writeModule(mods, NewModuleDetails(c.moduleId, c.name,
                                                     c.description, c.in, t))
       /\ now' = t
  /\ calls' = [calls EXCEPT ![s] =
                 Finish(c, "returned",
                        [kind |-> "moduleSaved", moduleId |-> c.moduleId])]
  /\ UNCHANGED <<nextId, ncalls, faults, prev, scripts, envProjectId, globalProjectId>>

\* writeArchitecture completes; the handler builds the details and starts
\* writeModule.
SetModuleDetailsWriteArch(s) ==
  LET c == calls[s] IN
  /\ c.op = "setModuleDetails" /\ c.pc = "writeArch"
  /\ arch' = c.architecture
  /\ dirs' = initializeProjectStorage(dirs)
  /\ \E t \in Readings :
       /\ calls' = [calls EXCEPT ![s] =
                      [c EXCEPT !.pc = "writeMod",
                                !.moduleDetails =
                                   NewModuleDetails(c.moduleId, c.name, c.description,
                                                    c.in, t)]]
       /\ now' = t
  /\ UNCHANGED <<mods, nextId, ncalls, faults, prev, scripts, envProjectId, globalProjectId>>

SetModuleDetailsWriteModule(s) ==
  LET c == calls[s] IN
  /\ c.op = "setModuleDetails" /\ c.pc = "writeMod"
  /\ mods' = writeModule(mods, c.moduleDetails)
  /\ dirs' = initializeProjectStorage(dirs)
  /\ calls' = [calls EXCEPT ![s] =
                 Finish(c, "returned",
                        [kind |-> "moduleSaved", moduleId |-> c.moduleId])]
  /\ UNCHANGED <<arch, nextId, now, ncalls, faults, prev,
                 scripts, envProjectId, globalProjectId>>

\* ---------------------------------------------------- get-module-details
CallGetModuleDetails(s, moduleName) ==
  /\ Begin(s, [NoCall EXCEPT
                 !.op = "getModuleDetails", !.pc = "readArch", !.name = moduleName])
  /\ UNCHANGED <<arch, mods, dirs, nextId, now, faults,
                 scripts, envProjectId, globalProjectId>>

\* get-module-details when readArchitecture has returned `architecture`.
GetAfterReadArchitecture(c, architecture) ==
  IF ~IsDoc(architecture) THEN Finish(c, "returned", [kind |-> "noArchitecture"])
  ELSE IF Find(architecture.modules, c.name) = NoModule
  THEN Finish(c, "returned", [kind |-> "moduleNotFound"])
  ELSE [c EXCEPT !.pc = "readMod", !.module = Find(architecture.modules, c.name)]

\* Mutant: a module without a details file is reported as not found.
GetAfterReadModule_NotFound(c, moduleDetails) ==
  IF ~IsDoc(moduleDetails)
  THEN Finish(c, "returned", [kind |-> "moduleNotFound"])
  ELSE Finish(c, "returned", [kind |-> "details", module |-> moduleDetails])

\* get-module-details when readModule has returned `moduleDetails`.
GetAfterReadModule(c, moduleDetails) ==
  IF ~IsDoc(moduleDetails)
  THEN Finish(c, "returned", [kind |-> "noDetails", module |-> c.module])
  ELSE Finish(c, "returned", [kind |-> "details", module |-> moduleDetails])

GetModuleDetailsReadArch(s) ==
  LET c == calls[s] IN
  /\ c.op = "getModuleDetails" /\ c.pc = "readArch"
  /\ calls' = [calls EXCEPT ![s] =
       IF readThrows(arch) THEN Finish(c, "thrown", [kind |-> "error"])
       ELSE GetAfterReadArchitecture(c, arch)]
  /\ UNCHANGED <<arch, mods, dirs, nextId, now, ncalls, faults, prev,
                 scripts, envProjectId, globalProjectId>>

GetModuleDetailsReadModule(s) ==
  LET c == calls[s] IN
  /\ c.op = "getModuleDetails" /\ c.pc = "readMod"
  /\ calls' = [calls EXCEPT ![s] =
       IF readThrows(readModule(mods, c.module.id))
       THEN Finish(c, "thrown", [kind |-> "error"])
       ELSE GetAfterReadModule(c, readModule(mods, c.module.id))]
  /\ UNCHANGED <<arch, mods, dirs, nextId, now, ncalls, faults, prev,
                 scripts, envProjectId, globalProjectId>>

\* ---------------------------------------------------------- delete-module
CallDeleteModule(s, moduleName) ==
  /\ Begin(s, [NoCall EXCEPT
                 !.op = "deleteModule", !.pc = "readArch", !.name = moduleName])
  /\ UNCHANGED <<arch, mods, dirs, nextId, now, faults,
                 scripts, envProjectId, globalProjectId>>

\* Mutant: the `if (!module)` return is missing.
DeleteAfterReadArchitecture_NoModuleCheck(c, architecture) ==
  IF ~IsDoc(architecture) THEN Finish(c, "returned", [kind |-> "noArchitecture"])
  ELSE [c EXCEPT !.pc = "unlink", !.architecture = architecture,
                 !.module = Find(architecture.modules, c.name),
                 !.moduleId = Find(architecture.modules, c.name).id]

\* Mutant: the `if (!architecture)` return is missing: architecture.modules
\* of null throws a TypeError.
DeleteAfterReadArchitecture_NoNullCheck(c, architecture) ==
  IF ~IsDoc(architecture) THEN Finish(c, "thrown", [kind |-> "error"])
  ELSE IF Find(architecture.modules, c.name) = NoModule
  THEN Finish(c, "returned", [kind |-> "moduleNotFound"])
  ELSE [c EXCEPT !.pc = "unlink", !.architecture = architecture,
                 !.module = Find(architecture.modules, c.name),
                 !.moduleId = Find(architecture.modules, c.name).id]

\* delete-module when readArchitecture has returned `architecture`.
DeleteAfterReadArchitecture(c, architecture) ==
  IF ~IsDoc(architecture) THEN Finish(c, "returned", [kind |-> "noArchitecture"])
  ELSE IF Find(architecture.modules, c.name) = NoModule
  THEN Finish(c, "returned", [kind |-> "moduleNotFound"])
  ELSE [c EXCEPT !.pc = "unlink", !.architecture = architecture,
                 !.module = Find(architecture.modules, c.name),
                 !.moduleId = Find(architecture.modules, c.name).id]

DeleteModuleRead(s) ==
  LET c == calls[s] IN
  /\ c.op = "deleteModule" /\ c.pc = "readArch"
  /\ calls' = [calls EXCEPT ![s] =
       IF readThrows(arch) THEN Finish(c, "thrown", [kind |-> "error"])
       ELSE DeleteAfterReadArchitecture(c, arch)]
  /\ UNCHANGED <<arch, mods, dirs, nextId, now, ncalls, faults, prev,
                 scripts, envProjectId, globalProjectId>>

\* deleteModule completes; the handler filters the summary out of the
\* in-memory architecture and starts writeArchitecture.
DeleteModuleUnlink(s) ==
  LET c == calls[s] IN
  /\ c.op = "deleteModule" /\ c.pc = "unlink"
  /\ mods' = deleteModule(mods, c.module.id)
  /\ \E t \in Readings :
       /\ calls' = [calls EXCEPT ![s] =
                      [c EXCEPT !.pc = "writeArch",
                                !.architecture =
                                   RemoveFromArchitecture(c.architecture,
                                                          c.module.id, t)]]
       /\ now' = t
  /\ UNCHANGED <<arch, dirs, nextId, ncalls, faults, prev,
                 scripts, envProjectId, globalProjectId>>

\* Mutant: removing the last summary also removes architecture.json.
DeleteModuleWriteArch_Unlinks(s) ==
  LET c == calls[s] IN
  /\ c.op = "deleteModule" /\ c.pc = "writeArch"
  /\ arch' = IF c.architecture.modules = <<>> THEN Absent ELSE c.architecture
  /\ dirs' = initializeProjectStorage(dirs)
  /\ calls' = [calls EXCEPT ![s] = Finish(c, "returned", [kind |-> "deleted"])]
  /\ UNCHANGED <<mods, nextId, now, ncalls, faults, prev,
                 scripts, envProjectId, globalProjectId>>

DeleteModuleWriteArch(s) ==
  LET c == calls[s] IN
  /\ c.op = "deleteModule" /\ c.pc = "writeArch"
  /\ arch' = c.architecture
  /\ dirs' = initializeProjectStorage(dirs)
  /\ calls' = [calls EXCEPT ![s] = Finish(c, "returned", [kind |-> "deleted"])]
  /\ UNCHANGED <<mods, nextId, now, ncalls, faults, prev,
                 scripts, envProjectId, globalProjectId>>

\* Mutant: the handler catches the error and restores the files it found.
IOFault_RollsBack(s) ==
  LET c == calls[s] IN
  /\ c.pc \in {"readArch", "readMod", "unlink", "writeArch", "writeMod"}
  /\ faults < MaxFaults
  /\ faults' = faults + 1
  /\ calls' = [calls EXCEPT ![s] =
                 [Finish(c, "thrown", [kind |-> "error"]) EXCEPT !.fault = TRUE]]
  /\ arch' = c.pre.arch
  /\ mods' = c.pre.mods
  /\ UNCHANGED <<dirs, nextId, now, ncalls, prev, scripts, envProjectId, globalProjectId>>

\* ------------------------------------------------------------- I/O errors
\* The pending file operation fails with an error other than ENOENT.  No
\* handler catches it: the invocation ends there.  A failed read or unlink
\* changes nothing; a failed write leaves the file as it was or truncated.
IOFault(s) ==
  LET c == calls[s] IN
  /\ c.pc \in {"readArch", "readMod", "unlink", "writeArch", "writeMod"}
  /\ faults < MaxFaults
  /\ faults' = faults + 1
  /\ calls' = [calls EXCEPT ![s] =
                 [Finish(c, "thrown", [kind |-> "error"]) EXCEPT !.fault = TRUE]]
  /\ \/ UNCHANGED <<arch, mods, dirs>>
     \/ /\ c.pc \in {"writeArch", "writeMod"}
        /\ dirs' = initializeProjectStorage(dirs)
        /\ \/ UNCHANGED <<arch, mods>>
           \/ c.pc = "writeArch" /\ arch' = Corrupt /\ UNCHANGED mods
           \/ /\ c.pc = "writeMod"
              /\ mods' = (c.moduleId :> Corrupt) @@ mods
              /\ UNCHANGED arch
  /\ UNCHANGED <<nextId, now, ncalls, prev, scripts, envProjectId, globalProjectId>>

\* ------------------------------------------------------------ the system
Step(s) ==
  \/ \E d \in ArchDescs, m \in ArchModuleLists, f \in DataFlows :
        CallSetArchitecture(s, d, m, f)
  \/ SetArchitectureWrite(s)
  \/ \E n \in Names, in \in DetailInputs : CallSetModuleDetails(s, n, in)
  \/ SetModuleDetailsRead(s)
  \/ SetModuleDetailsWriteArch(s)
  \/ SetModuleDetailsWriteModule(s)
  \/ \E n \in Names : CallGetModuleDetails(s, n)
  \/ GetModuleDetailsReadArch(s)
  \/ GetModuleDetailsReadModule(s)
  \/ \E n \in Names : CallDeleteModule(s, n)
  \/ DeleteModuleRead(s)
  \/ DeleteModuleUnlink(s)
  \/ DeleteModuleWriteArch(s)

\* Calls issued concurrently: their steps interleave at the awaited file
\* operations.
Next == \E s \in Slots : Step(s)

Spec == Init /\ [][Next]_vars

\* Calls issued one after the other: each runs to completion before the next
\* is issued.
SerialNext == Step(1)

SerialSpec == Init /\ [][SerialNext]_vars

\* Serial calls whose file operations may fail.
FaultNext == Step(1) \/ IOFault(1)

FaultSpec == Init /\ [][FaultNext]_vars

\* ================================================================ scripts
ScriptNames == {"build", "test"}

\* The arguments of set-script-documentation tried: a script documented
\* twice with different content, and a second script.
ScriptInputs ==
  { [scriptName |-> "build", description |-> "v1", usage |-> "make",
     examples |-> <<>>, parameters |-> <<>>, notes |-> Undefined],
    [scriptName |-> "build", description |-> "v2", usage |-> "make all",
     examples |-> <<"make all">>, parameters |-> <<>>, notes |-> "n1"],
    [scriptName |-> "test", description |-> "v1", usage |-> "make test",
     examples |-> <<>>, parameters |-> <<>>, notes |-> Undefined] }

\* readScript: null (Absent) when the file is missing.
readScript(files, scriptId) ==
  IF scriptId \in DOMAIN files THEN files[scriptId] ELSE Absent

\* Mutant: the file is named after the script, not after its id.
writeScript_ByName(files, scriptDoc) ==
  LET same == {id \in DOMAIN files : IsDoc(files[id])
                                     /\ files[id].scriptName = scriptDoc.scriptName}
  IN IF same = {} THEN (scriptDoc.scriptId :> scriptDoc) @@ files
     ELSE [id \in DOMAIN files |-> IF id \in same THEN scriptDoc ELSE files[id]]

\* writeScript: the file scripts/<scriptId>.json is replaced.
writeScript(files, scriptDoc) == (scriptDoc.scriptId :> scriptDoc) @@ files

\* listScripts: the ids of the files in scripts/, [] when the directory is missing.
listScripts == IF "scripts" \in dirs THEN DOMAIN scripts ELSE {}

\* set-script-documentation: the ScriptDocumentation document.
NewScriptDocumentation(scriptId, in, t) ==
  [kind |-> "doc",
   scriptId |-> scriptId,
   scriptName |-> in.scriptName,
   description |-> in.description,
   usage |-> in.usage,
   examples |-> in.examples,
   parameters |-> in.parameters,
   notes |-> OrEmptyString(in.notes),
   createdAt |-> t,
   updatedAt |-> t]

\* ---------------------------------------------- set-script-documentation
\* The handler takes a fresh id and builds the document before its only
\* awaited operation, writeScript.
CallSetScript(s, in) ==
  \E t \in Readings :
    /\ Begin(s, [NoCall EXCEPT
                   !.op = "setScript", !.pc = "writeScript",
                   !.name = in.scriptName, !.description = in.description, !.in = in,
                   !.scriptDoc = NewScriptDocumentation(nextId, in, t)])
    /\ nextId' = nextId + 1
    /\ now' = t
    /\ UNCHANGED <<arch, mods, dirs, faults, scripts, envProjectId, globalProjectId>>

SetScriptWrite(s) ==
  LET c == calls[s] IN
  /\ c.op = "setScript" /\ c.pc = "writeScript"
  /\ scripts' = writeScript(scripts, c.scriptDoc)
  /\ dirs' = initializeProjectStorage(dirs) \cup {"scripts"}
  /\ calls' = [calls EXCEPT ![s] =
                 Finish(c, "returned",
                        [kind |-> "scriptSaved", scriptId |-> c.scriptDoc.scriptId])]
  /\ UNCHANGED <<arch, mods, nextId, now, ncalls, faults, prev,
                 envProjectId, globalProjectId>>

\* ---------------------------------------------- get-script-documentation
CallGetScript(s, scriptName) ==
  /\ Begin(s, [NoCall EXCEPT
                 !.op = "getScript", !.pc = "listScripts", !.name = scriptName])
  /\ UNCHANGED <<arch, mods, dirs, nextId, now, faults, scripts,
                 envProjectId, globalProjectId>>

\* get-script-documentation with the ids `ids` still to read: with none left
\* the loop has ended without a match.
GetScriptLoop(c, ids) ==
  IF ids = {} THEN Finish(c, "returned", [kind |-> "scriptNotFound"])
  ELSE [c EXCEPT !.pc = "readScript", !.scriptIds = ids]

\* listScripts completes with the ids of the directory.
GetScriptList(s) ==
  LET c == calls[s] IN
  /\ c.op = "getScript" /\ c.pc = "listScripts"
  /\ calls' = [calls EXCEPT ![s] = GetScriptLoop(c, listScripts)]
  /\ UNCHANGED <<arch, mods, dirs, nextId, now, ncalls, faults, prev, scripts,
                 envProjectId, globalProjectId>>

\* readScript of the next id completes.  readdir returns the names in no
\* defined order, so the next id is any of those still to read.  The first
\* document read that has the name is returned.
GetScriptRead(s) ==
  LET c == calls[s] IN
  /\ c.op = "getScript" /\ c.pc = "readScript"
  /\ \E scriptId \in c.scriptIds :
       LET script == readScript(scripts, scriptId) IN
       calls' = [calls EXCEPT ![s] =
         IF readThrows(script) THEN Finish(c, "thrown", [kind |-> "error"])
         ELSE IF IsDoc(script) /\ script.scriptName = c.name
         THEN Finish(c, "returned", [kind |-> "script", script |-> script])
         ELSE GetScriptLoop(c, c.scriptIds \ {scriptId})]
  /\ UNCHANGED <<arch, mods, dirs, nextId, now, ncalls, faults, prev, scripts,
                 envProjectId, globalProjectId>>

\* ------------------------------------------------------------ list-scripts
CallListScripts(s) ==
  /\ Begin(s, [NoCall EXCEPT !.op = "listScripts", !.pc = "listScripts"])
  /\ UNCHANGED <<arch, mods, dirs, nextId, now, faults, scripts,
                 envProjectId, globalProjectId>>

ListScriptsList(s) ==
  LET c == calls[s] IN
  /\ c.op = "listScripts" /\ c.pc = "listScripts"
  /\ calls' = [calls EXCEPT ![s] = [c EXCEPT !.pc = "readScripts",
                                             !.scriptIds = listScripts]]
  /\ UNCHANGED <<arch, mods, dirs, nextId, now, ncalls, faults, prev, scripts,
                 envProjectId, globalProjectId>>

\* Promise.all of the readScript calls settles: one that throws rejects the
\* whole, the nulls are filtered out.
ListScriptsReadAll(s) ==
  LET c == calls[s] IN
  /\ c.op = "listScripts" /\ c.pc = "readScripts"
  /\ calls' = [calls EXCEPT ![s] =
       IF \E id \in c.scriptIds : readThrows(readScript(scripts, id))
       THEN Finish(c, "thrown", [kind |-> "error"])
       ELSE Finish(c, "returned",
                   [kind |-> "scripts",
                    scripts |-> {readScript(scripts, id) :
                                   id \in {x \in c.scriptIds :
                                             IsDoc(readScript(scripts, x))}}])]
  /\ UNCHANGED <<arch, mods, dirs, nextId, now, ncalls, faults, prev, scripts,
                 envProjectId, globalProjectId>>

ScriptStep(s) ==
  \/ \E in \in ScriptInputs : CallSetScript(s, in)
  \/ SetScriptWrite(s)
  \/ \E n \in ScriptNames : CallGetScript(s, n)
  \/ GetScriptList(s)
  \/ GetScriptRead(s)
  \/ CallListScripts(s)
  \/ ListScriptsList(s)
  \/ ListScriptsReadAll(s)

\* Serial calls of every tool, the script tools included.
ScriptNext == Step(1) \/ ScriptStep(1)

ScriptSpec == Init /\ [][ScriptNext]_vars

\* ============================================================ project ids
\* Strings whose characters matter are sequences of one-character strings; a
\* JS value that is a string or undefined is tagged with its kind.
MaxLen == 2          \* caller-supplied ids and workdirs have at most MaxLen characters

Str(chars) == [kind |-> "string", chars |-> chars]
NoString == [kind |-> "undefined"]
Thrown == [kind |-> "thrown"]

\* The characters tried: letters, a digit and "-", and two that the character
\* class excludes ("/" and ".", the ones a path is made of).
Chars == {"a", "Z", "7", "-", "/", "."}

RECURSIVE StringsOfLen(_)
StringsOfLen(n) ==
  IF n = 0 THEN {<<>>}
  ELSE {Append(s, ch) : s \in StringsOfLen(n - 1), ch \in Chars}

Strings == UNION {StringsOfLen(n) : n \in 0..MaxLen}

\* The workdir of the spec's scenario, "/home/me/proj 1".
ScenarioWorkdir ==
  <<"/", "h", "o", "m", "e", "/", "m", "e", "/", "p", "r", "o", "j", " ", "1">>

ProjectIdArgs == {NoString} \cup {Str(s) : s \in Strings}

\* The values of MCP_PROJECT_ID tried: unset, empty, and the strings made of
\* one character of the class and one outside it.
EnvChars == {"a", "/"}
EnvProjectIds ==
  {NoString} \cup {Str(s) : s \in {x \in Strings : \A i \in 1..Len(x) : x[i] \in EnvChars}}
Workdirs == ProjectIdArgs \cup {Str(ScenarioWorkdir)}

\* The character class a-zA-Z0-9_- of normalizeProjectId's regular expression.
AllowedChars ==
  {"a", "b", "c", "d", "e", "f", "g", "h", "i", "j", "k", "l", "m",
   "n", "o", "p", "q", "r", "s", "t", "u", "v", "w", "x", "y", "z",
   "A", "B", "C", "D", "E", "F", "G", "H", "I", "J", "K", "L", "M",
   "N", "O", "P", "Q", "R", "S", "T", "U", "V", "W", "X", "Y", "Z",
   "0", "1", "2", "3", "4", "5", "6", "7", "8", "9", "_", "-"}

\* !v for a string-or-undefined-or-null v.
Falsy(v) == v.kind # "string" \/ v.chars = <<>>

\* Mutant: the regular expression lacks the g flag, so only the first
\* character outside the class is replaced.
normalizeProjectId_FirstOnly(workdir) ==
  IF Falsy(workdir) THEN Thrown
  ELSE Str([i \in 1..Len(workdir.chars) |->
              IF /\ workdir.chars[i] \notin AllowedChars
                 /\ \A j \in 1..(i - 1) : workdir.chars[j] \in AllowedChars
              THEN "_" ELSE workdir.chars[i]])

\* normalizeProjectId: throws on a missing or empty workdir, otherwise
\* workdir.replace(/[^a-zA-Z0-9_-]/g, '_').
normalizeProjectId(workdir) ==
  IF Falsy(workdir) THEN Thrown
  ELSE Str([i \in 1..Len(workdir.chars) |->
              IF workdir.chars[i] \in AllowedChars THEN workdir.chars[i] ELSE "_"])

DefaultProjectId ==
  Str(<<"d", "e", "f", "a", "u", "l", "t", "-", "p", "r", "o", "j", "e", "c", "t">>)

\* a || b
Or(a, b) == IF Falsy(a) THEN b ELSE a

\* Mutant: the id of the environment wins over the one passed in the call.
ResolveProjectId_GlobalFirst(providedProjectId, global) ==
  Or(global, Or(providedProjectId, DefaultProjectId))

\* The first line of every tool handler:
\* providedProjectId || globalProjectId || "default-project".
ResolveProjectId(providedProjectId, global) ==
  Or(providedProjectId, Or(global, DefaultProjectId))

ToolNames ==
  {"set-project-architecture", "get-project-architecture", "set-module-details",
   "get-module-details", "list-modules", "delete-module",
   "set-script-documentation", "get-script-documentation", "list-scripts"}

ResourceNames == {"architecture", "module"}

\* The server process before its module-level code has run: the environment
\* holds any MCP_PROJECT_ID or none.
ProjectIdInit ==
  /\ arch = Absent
  /\ mods = <<>>
  /\ dirs = {}
  /\ nextId = 1
  /\ now = 0
  /\ ncalls = 0
  /\ faults = 0
  /\ calls = [s \in Slots |-> [NoCall EXCEPT !.pc = "startup"]]
  /\ prev = NoPrev
  /\ scripts = <<>>
  /\ envProjectId \in EnvProjectIds
  /\ globalProjectId = Null

\* index.js 15-22: the module-level code.
Startup ==
  /\ \A s \in Slots : calls[s].pc = "startup"
  /\ globalProjectId' = IF Falsy(envProjectId) THEN Null
                        ELSE normalizeProjectId(envProjectId)
  /\ calls' = [s \in Slots |-> NoCall]
  /\ UNCHANGED <<arch, mods, dirs, nextId, now, ncalls, faults, prev, scripts,
                 envProjectId>>

\* A tool call up to its first storage call: in.projectId is the argument,
\* result.projectId the id the handler hands to storage.
CallTool(s, tool, providedProjectId) ==
  /\ calls[s].pc = "idle"
  /\ calls' = [calls EXCEPT ![s] =
                 [NoCall EXCEPT
                    !.op = tool, !.pc = "done", !.outcome = "returned",
                    !.in = [projectId |-> providedProjectId],
                    !.result = [kind |-> "storage",
                                projectId |-> ResolveProjectId(providedProjectId,
                                                               globalProjectId)]]]
  /\ UNCHANGED <<arch, mods, dirs, nextId, now, ncalls, faults, prev, scripts,
                 envProjectId, globalProjectId>>

\* A read of arch://{projectId} or module://{projectId}/{moduleId}: the
\* handler hands String(projectId) of the URI to readArchitecture / readModule.
ReadResource(s, resource, projectId) ==
  /\ calls[s].pc = "idle"
  /\ calls' = [calls EXCEPT ![s] =
                 [NoCall EXCEPT
                    !.op = resource, !.pc = "done", !.outcome = "returned",
                    !.in = [projectId |-> projectId],
                    !.result = [kind |-> "storage", projectId |-> projectId]]]
  /\ UNCHANGED <<arch, mods, dirs, nextId, now, ncalls, faults, prev, scripts,
                 envProjectId, globalProjectId>>

\* normalizeProjectId called on its own.
CallNormalizeProjectId(s, workdir) ==
  /\ calls[s].pc = "idle"
  /\ calls' = [calls EXCEPT ![s] =
                 [NoCall EXCEPT
                    !.op = "normalizeProjectId", !.pc = "done",
                    !.outcome = IF normalizeProjectId(workdir) = Thrown
                                THEN "thrown" ELSE "returned",
                    !.in = [workdir |-> workdir],
                    !.result = normalizeProjectId(workdir)]]
  /\ UNCHANGED <<arch, mods, dirs, nextId, now, ncalls, faults, prev, scripts,
                 envProjectId, globalProjectId>>

\* The response has been sent: nothing of the invocation remains.
Respond(s) ==
  /\ calls[s].pc = "done"
  /\ calls' = [calls EXCEPT ![s] = NoCall]
  /\ UNCHANGED <<arch, mods, dirs, nextId, now, ncalls, faults, prev, scripts,
                 envProjectId, globalProjectId>>

ProjectIdNext ==
  \/ Startup
  \/ \E tool \in ToolNames, p \in ProjectIdArgs : CallTool(1, tool, p)
  \/ \E r \in ResourceNames, s \in Strings \ {<<>>} : ReadResource(1, r, Str(s))
  \/ \E w \in Workdirs : CallNormalizeProjectId(1, w)
  \/ Respond(1)

ProjectIdSpec == ProjectIdInit /\ [][ProjectIdNext]_vars

\* ================================================================ storage
\* storage.ts called function by function.  Here the caller's documents are
\* JS objects, in which an optional property may be missing or hold
\* undefined; a file holds the JSON text, written as the record of all the
\* keys of its type with Undefined for the ones the text leaves out (the form
\* the handlers above read and write).
ModuleIds == {1, 2}
ScriptIds == {1, 2}

\* obj[k] of a JS object: undefined when the object has no such property.
Get(obj, k) == IF k \in DOMAIN obj THEN obj[k] ELSE Undefined

\* types.ts.  The optional properties are the ones the objects below omit;
\* the array-valued properties of ModuleDetails are always given.
ArchitectureKeys ==
  {"projectId", "description", "modules", "dataFlow", "createdAt", "updatedAt"}
ArchitectureOptional == {"dataFlow"}
SummaryKeys == {"id", "name", "description", "inputs", "outputs", "createdAt", "updatedAt"}
SummaryOptional == {"inputs", "outputs"}
ModuleKeys ==
  {"moduleId", "name", "description", "inputs", "outputs", "dependencies", "files",
   "usageExamples", "notes", "createdAt", "updatedAt"}
ModuleOptional == {"notes"}
ScriptKeys ==
  {"scriptId", "scriptName", "description", "usage", "examples", "parameters",
   "notes", "createdAt", "updatedAt"}
ScriptOptional == {"notes"}

\* JSON.stringify(obj, null, 2) of an object of the given type: a property
\* that is missing or undefined is left out of the text.
Text(obj, keys) == [k \in keys |-> Get(obj, k)]

\* JSON.parse of such a text: the object has the properties the text lists.
Object(text, keys, optional) ==
  [k \in {x \in keys : x \in optional => text[x] # Undefined} |-> text[k]]

stringifyArchitecture(architecture) ==
  [kind |-> "doc"] @@
  Text([architecture EXCEPT
          !.modules = [i \in 1..Len(architecture.modules) |->
                         Text(architecture.modules[i], SummaryKeys)]],
       ArchitectureKeys)

parseArchitecture(content) ==
  LET o == Object(content, ArchitectureKeys, ArchitectureOptional) IN
  [o EXCEPT !.modules = [i \in 1..Len(o.modules) |->
                           Object(o.modules[i], SummaryKeys, SummaryOptional)]]

stringifyModule(moduleDetails) == [kind |-> "doc"] @@ Text(moduleDetails, ModuleKeys)
parseModule(content) == Object(content, ModuleKeys, ModuleOptional)

stringifyScript(scriptDoc) == [kind |-> "doc"] @@ Text(scriptDoc, ScriptKeys)
parseScript(content) == Object(content, ScriptKeys, ScriptOptional)

\* Mutant: the properties the new text leaves out keep their old values.
writeFile_Merge(old, text) ==
  IF IsDoc(old) /\ "notes" \in DOMAIN text /\ text.notes = Undefined
  THEN [text EXCEPT !.notes = old.notes]
  ELSE text

\* fs.writeFile(filePath, text): the file's content is replaced by the text.
writeFile(old, text) == text

\* fs.readFile / fs.readdir / fs.unlink: the error code of the operation on
\* `file` (Absent when the file or its directory is missing).
fsError(file, fault) ==
  IF fault THEN "EIO" ELSE IF file = Absent THEN "ENOENT" ELSE "none"

\* Mutant: the catch block of a read returns null for every error.
readCatch_Swallow(code) == "null"

\* The catch block of readArchitecture / readModule / readScript: null for
\* ENOENT, anything else (a SyntaxError of JSON.parse has no code) is rethrown.
readCatch(code) == IF code = "ENOENT" THEN "null" ELSE "throw"

\* Mutant: listModules / listScripts rethrow every error.
listCatch_Rethrow(code) == "throw"

\* The catch block of listModules / listScripts: [] for ENOENT.
listCatch(code) == IF code = "ENOENT" THEN "empty" ELSE "throw"

\* Mutant: deleteModule has no try/catch.
deleteCatch_NoCatch(code) == "throw"

\* The catch block of deleteModule: ENOENT is ignored.
deleteCatch(code) == IF code # "ENOENT" THEN "throw" ELSE "ignore"

\* The return of a read: the parsed object, null, or the error thrown.
ReadResult(file, fault, object) ==
  LET code == IF fsError(file, fault) # "none" THEN fsError(file, fault)
              ELSE IF file = Corrupt THEN "SyntaxError" ELSE "none"
  IN IF code = "none" THEN [kind |-> "value", value |-> object]
     ELSE IF readCatch(code) = "null" THEN Null
     ELSE [kind |-> "error", code |-> code]

\* The return of a list: the ids of the .json files of the directory, [], or
\* the error thrown.  The ids here are those uuidv4 mints: they have no
\* ".json" in them, and for such ids the list is the set of ids stored (the
\* section on file names computes the list from the names).
ListResult(dir, files, fault) ==
  LET code == fsError(IF dir \in dirs THEN [kind |-> "dir"] ELSE Absent, fault) IN
  IF code = "none" THEN [kind |-> "list", ids |-> DOMAIN files]
  ELSE IF listCatch(code) = "empty" THEN [kind |-> "list", ids |-> {}]
  ELSE [kind |-> "error", code |-> code]

\* The JS objects written: valid documents of types.ts in which an optional
\* property is given, missing, or holds undefined.
ArchitectureObjects ==
  { [projectId |-> ProjectId, description |-> "p1", modules |-> <<>>,
     createdAt |-> 0, updatedAt |-> 0],
    [projectId |-> ProjectId, description |-> "p2",
     modules |-> << [id |-> 1, name |-> "auth", description |-> "s1",
                     inputs |-> Undefined, outputs |-> "out",
                     createdAt |-> 0, updatedAt |-> 0],
                    [id |-> 2, name |-> "db", description |-> "s2",
                     inputs |-> "in", createdAt |-> 0, updatedAt |-> 0] >>,
     dataFlow |-> Undefined, createdAt |-> 0, updatedAt |-> 0] }

ModuleObjects(moduleId) ==
  { [moduleId |-> moduleId, name |-> "auth", description |-> "d1", inputs |-> "min",
     outputs |-> "mout", dependencies |-> <<>>, files |-> <<>>, usageExamples |-> <<>>,
     createdAt |-> 0, updatedAt |-> 0],
    [moduleId |-> moduleId, name |-> "auth", description |-> "d2", inputs |-> "min",
     outputs |-> "mout", dependencies |-> <<"db">>, files |-> <<"auth.ts">>,
     usageExamples |-> <<"login">>, notes |-> "n1", createdAt |-> 0, updatedAt |-> 0] }

ScriptObjects(scriptId) ==
  { [scriptId |-> scriptId, scriptName |-> "build", description |-> "v1",
     usage |-> "make", examples |-> <<>>, parameters |-> [j |-> "jobs"],
     notes |-> Undefined, createdAt |-> 0, updatedAt |-> 0],
    [scriptId |-> scriptId, scriptName |-> "build", description |-> "v2",
     usage |-> "make", examples |-> <<"make all">>, parameters |-> [j |-> "jobs"],
     notes |-> "n1", createdAt |-> 0, updatedAt |-> 0] }

\* How a write ends: it completes, or an operation of it fails before the
\* directories are made, before the file is opened, or in the middle of the text.
WriteEnds ==
  { [fault |-> FALSE, made |-> TRUE, truncated |-> FALSE],
    [fault |-> TRUE, made |-> FALSE, truncated |-> FALSE],
    [fault |-> TRUE, made |-> TRUE, truncated |-> FALSE],
    [fault |-> TRUE, made |-> TRUE, truncated |-> TRUE] }

VoidOrError(fault) == IF fault THEN [kind |-> "error", code |-> "EIO"] ELSE [kind |-> "void"]
OutcomeOf(result) == IF result.kind = "error" THEN "thrown" ELSE "returned"

\* A storage function is called and runs to its end: the call, its return
\* and the files it started from are recorded, and the call before it is kept.
StorageCall(op, in, result, fault) ==
  /\ Free(1)
  /\ ncalls < MaxCalls
  /\ fault => faults < MaxFaults
  /\ ncalls' = ncalls + 1
  /\ faults' = IF fault THEN faults + 1 ELSE faults
  /\ calls' = [calls EXCEPT ![1] =
                 [NoCall EXCEPT
                    !.op = op, !.pc = "done", !.in = in, !.result = result,
                    !.outcome = OutcomeOf(result), !.fault = fault,
                    !.pre = [arch |-> arch, mods |-> mods, scripts |-> scripts,
                             dirs |-> dirs]]]
  /\ prev' = calls[1]
  /\ UNCHANGED <<nextId, now, envProjectId, globalProjectId>>

WriteArchitectureCall(architecture, end) ==
  /\ StorageCall("writeArchitecture", [doc |-> architecture], VoidOrError(end.fault),
                 end.fault)
  /\ dirs' = IF end.made THEN initializeProjectStorage(dirs) ELSE dirs
  /\ arch' = IF end.truncated THEN Corrupt
             ELSE IF end.fault THEN arch
             ELSE writeFile(arch, stringifyArchitecture(architecture))
  /\ UNCHANGED <<mods, scripts>>

ReadArchitectureCall(fault) ==
  /\ StorageCall("readArchitecture", NoInputs,
                 ReadResult(arch, fault,
                            IF IsDoc(arch) THEN parseArchitecture(arch) ELSE Null),
                 fault)
  /\ UNCHANGED <<arch, mods, scripts, dirs>>

WriteModuleCall(moduleDetails, end) ==
  LET moduleId == moduleDetails.moduleId IN
  /\ StorageCall("writeModule", [id |-> moduleId, doc |-> moduleDetails],
                 VoidOrError(end.fault), end.fault)
  /\ dirs' = IF end.made THEN initializeProjectStorage(dirs) ELSE dirs
  /\ mods' = IF end.truncated THEN (moduleId :> Corrupt) @@ mods
             ELSE IF end.fault THEN mods
             ELSE (moduleId :> writeFile(readModule(mods, moduleId),
                                         stringifyModule(moduleDetails))) @@ mods
  /\ UNCHANGED <<arch, scripts>>

ReadModuleCall(moduleId, fault) ==
  LET file == readModule(mods, moduleId) IN
  /\ StorageCall("readModule", [id |-> moduleId],
                 ReadResult(file, fault, IF IsDoc(file) THEN parseModule(file) ELSE Null),
                 fault)
  /\ UNCHANGED <<arch, mods, scripts, dirs>>

ListModulesCall(fault) ==
  /\ StorageCall("listModules", NoInputs, ListResult("modules", mods, fault), fault)
  /\ UNCHANGED <<arch, mods, scripts, dirs>>

DeleteModuleCall(moduleId, fault) ==
  LET code == fsError(readModule(mods, moduleId), fault) IN
  /\ StorageCall("deleteModule", [id |-> moduleId],
                 IF code # "none" /\ deleteCatch(code) = "throw"
                 THEN [kind |-> "error", code |-> code] ELSE [kind |-> "void"],
                 fault)
  /\ mods' = IF code = "none" THEN deleteModule(mods, moduleId) ELSE mods
  /\ UNCHANGED <<arch, scripts, dirs>>

\* writeScript: initializeProjectStorage, then the scripts directory.
WriteScriptCall(scriptDoc, end) ==
  LET scriptId == scriptDoc.scriptId
      old == IF scriptId \in DOMAIN scripts THEN scripts[scriptId] ELSE Absent
  IN
  /\ StorageCall("writeScript", [id |-> scriptId, doc |-> scriptDoc],
                 VoidOrError(end.fault), end.fault)
  /\ dirs' = IF end.made THEN initializeProjectStorage(dirs) \cup {"scripts"} ELSE dirs
  /\ scripts' = IF end.truncated THEN (scriptId :> Corrupt) @@ scripts
                ELSE IF end.fault THEN scripts
                ELSE (scriptId :> writeFile(old, stringifyScript(scriptDoc))) @@ scripts
  /\ UNCHANGED <<arch, mods>>

ReadScriptCall(scriptId, fault) ==
  LET file == IF scriptId \in DOMAIN scripts THEN scripts[scriptId] ELSE Absent IN
  /\ StorageCall("readScript", [id |-> scriptId],
                 ReadResult(file, fault, IF IsDoc(file) THEN parseScript(file) ELSE Null),
                 fault)
  /\ UNCHANGED <<arch, mods, scripts, dirs>>

ListScriptsCall(fault) ==
  /\ StorageCall("listScripts", NoInputs, ListResult("scripts", scripts, fault), fault)
  /\ UNCHANGED <<arch, mods, scripts, dirs>>

StorageNext ==
  \/ \E a \in ArchitectureObjects, end \in WriteEnds : WriteArchitectureCall(a, end)
  \/ \E fault \in BOOLEAN : ReadArchitectureCall(fault)
  \/ \E id \in ModuleIds, end \in WriteEnds :
        \E m \in ModuleObjects(id) : WriteModuleCall(m, end)
  \/ \E id \in ModuleIds, fault \in BOOLEAN : ReadModuleCall(id, fault)
  \/ \E fault \in BOOLEAN : ListModulesCall(fault)
  \/ \E id \in ModuleIds, fault \in BOOLEAN : DeleteModuleCall(id, fault)
  \/ \E id \in ScriptIds, end \in WriteEnds :
        \E d \in ScriptObjects(id) : WriteScriptCall(d, end)
  \/ \E id \in ScriptIds, fault \in BOOLEAN : ReadScriptCall(id, fault)
  \/ \E fault \in BOOLEAN : ListScriptsCall(fault)

StorageSpec == Init /\ [][StorageNext]_vars

\* ============================================================== file names
\* The modules and scripts directories by file name.  In this section mods
\* and scripts map the NAME of a file (a sequence of characters) to its
\* content, and listModules / listScripts are computed from the names as
\* the source computes them.

Json == <<".", "j", "s", "o", "n">>

\* The ids the storage functions are called with: a plain id, and ids that
\* contain ".json" at the end, in the middle and at the start.
FileIds ==
  { <<"a">>,
    <<"a">> \o Json,
    <<"a">> \o Json \o <<"b">>,
    Json \o <<"a">> }

\* Names of files that something else puts into a directory.
ForeignNames ==
  { <<"a", ".", "t", "x", "t">>,
    <<"j", "s", "o", "n">>,
    <<"b">> \o Json }

\* `${moduleId}.json`, `${scriptId}.json`
getModuleFile(moduleId) == moduleId \o Json
getScriptFile(scriptId) == scriptId \o Json

\* String.prototype.endsWith
endsWith(file, suffix) ==
  /\ Len(file) >= Len(suffix)
  /\ SubSeq(file, Len(file) - Len(suffix) + 1, Len(file)) = suffix

\* String.prototype.indexOf, counted from 1; 0 when there is no occurrence.
indexOf(string, pattern) ==
  LET Occurrences ==
        {i \in 1..(Len(string) - Len(pattern) + 1) :
           SubSeq(string, i, i + Len(pattern) - 1) = pattern}
  IN IF Occurrences = {} THEN 0
     ELSE CHOOSE i \in Occurrences : \A j \in Occurrences : i <= j

\* String.prototype.replace with a string pattern: the first occurrence only.
replace(string, pattern, replacement) ==
  LET i == indexOf(string, pattern) IN
  IF i = 0 THEN string
  ELSE SubSeq(string, 1, i - 1) \o replacement
         \o SubSeq(string, i + Len(pattern), Len(string))

\* files.filter(file => file.endsWith('.json')).map(file => file.replace('.json', ''))
\* The order of the array is the order of readdir and is not modelled.
FilterAndMap(files) ==
  {replace(file, Json, <<>>) : file \in {f \in files : endsWith(f, Json)}}

\* listModules / listScripts on a directory holding `files`.
listFiles(dir, files) ==
  IF dir \in dirs THEN [kind |-> "list", ids |-> FilterAndMap(files)]
  ELSE [kind |-> "list", ids |-> {}]

Stored(id) == [kind |-> "text", id |-> id]

WriteModuleFile(moduleId) ==
  /\ StorageCall("writeModule", [id |-> moduleId], [kind |-> "void"], FALSE)
  /\ dirs' = initializeProjectStorage(dirs)
  /\ mods' = (getModuleFile(moduleId) :> Stored(moduleId)) @@ mods
  /\ UNCHANGED <<arch, scripts>>

WriteScriptFile(scriptId) ==
  /\ StorageCall("writeScript", [id |-> scriptId], [kind |-> "void"], FALSE)
  /\ dirs' = initializeProjectStorage(dirs) \cup {"scripts"}
  /\ scripts' = (getScriptFile(scriptId) :> Stored(scriptId)) @@ scripts
  /\ UNCHANGED <<arch, mods>>

ListModulesFiles ==
  /\ StorageCall("listModules", NoInputs, listFiles("modules", DOMAIN mods), FALSE)
  /\ UNCHANGED <<arch, mods, scripts, dirs>>

ListScriptsFiles ==
  /\ StorageCall("listScripts", NoInputs, listFiles("scripts", DOMAIN scripts), FALSE)
  /\ UNCHANGED <<arch, mods, scripts, dirs>>

\* Something other than this program puts a file into modules/ or scripts/;
\* the budget of calls bounds these events too.
ForeignFile(dir, name) ==
  /\ dir \in dirs
  /\ ncalls < MaxCalls
  /\ ncalls' = ncalls + 1
  /\ name \notin (IF dir = "modules" THEN DOMAIN mods ELSE DOMAIN scripts)
  /\ IF dir = "modules"
     THEN mods' = (name :> [kind |-> "foreign"]) @@ mods /\ UNCHANGED scripts
     ELSE scripts' = (name :> [kind |-> "foreign"]) @@ scripts /\ UNCHANGED mods
  /\ UNCHANGED <<arch, dirs, nextId, now, faults, calls, prev,
                 envProjectId, globalProjectId>>

FileNameNext ==
  \/ \E id \in FileIds : WriteModuleFile(id)
  \/ \E id \in FileIds : WriteScriptFile(id)
  \/ ListModulesFiles
  \/ ListScriptsFiles
  \/ \E dir \in {"modules", "scripts"}, name \in ForeignNames : ForeignFile(dir, name)

FileNameSpec == Init /\ [][FileNameNext]_vars

\* ============================================================ directories
\* initializeProjectStorage and writeScript by their awaited steps:
\* ensureDirectoryExists is fs.access and, when that rejects, fs.mkdir with
\* recursive: true.  Two calls may interleave at every await.  The project
\* root stands for <base>/<projectId> with the base directory above it.

Parents(dir) == IF dir = "root" THEN {} ELSE {"root"}

\* Mutant: mkdir without recursive: it rejects when the directory exists or
\* its parent is missing.
mkdir_NotRecursive(d, dir) ==
  IF dir \in d THEN [dirs |-> d, error |-> "EEXIST"]
  ELSE IF ~(Parents(dir) \subseteq d) THEN [dirs |-> d, error |-> "ENOENT"]
  ELSE [dirs |-> d \cup {dir}, error |-> "none"]

\* fs.mkdir(dir, { recursive: true }): the directory and its missing parents
\* are made; an existing directory is not an error.
mkdir(d, dir) == [dirs |-> d \cup {dir} \cup Parents(dir), error |-> "none"]

AccessPc(dir) ==
  CASE dir = "root" -> "accessRoot"
    [] dir = "modules" -> "accessModules"
    [] dir = "scripts" -> "accessScripts"

MkdirPc(dir) ==
  CASE dir = "root" -> "mkdirRoot"
    [] dir = "modules" -> "mkdirModules"
    [] dir = "scripts" -> "mkdirScripts"

LayoutOps == {"initializeProjectStorage", "writeScript"}
LayoutDirs == {"root", "modules", "scripts"}

\* The call once `dir` is ensured: the next directory, the file write of
\* writeScript, or the return of initializeProjectStorage.
AfterEnsure(c, dir) ==
  CASE dir = "root" -> [c EXCEPT !.pc = "accessModules"]
    [] dir = "modules" ->
         IF c.op = "writeScript" THEN [c EXCEPT !.pc = "accessScripts"]
         ELSE Finish(c, "returned", [kind |-> "void"])
    [] dir = "scripts" -> [c EXCEPT !.pc = "writeFile"]

CallInitializeProjectStorage(s) ==
  /\ Begin(s, [NoCall EXCEPT !.op = "initializeProjectStorage", !.pc = "accessRoot",
                             !.in = [mkdirs |-> {}]])
  /\ UNCHANGED <<arch, mods, dirs, nextId, now, faults,
                 scripts, envProjectId, globalProjectId>>

CallWriteScript(s, scriptDoc) ==
  /\ Begin(s, [NoCall EXCEPT !.op = "writeScript", !.pc = "accessRoot",
                             !.in = [mkdirs |-> {}], !.scriptDoc = scriptDoc])
  /\ UNCHANGED <<arch, mods, dirs, nextId, now, faults,
                 scripts, envProjectId, globalProjectId>>

\* fs.access(dir) settles: resolved when the directory exists, rejected (and
\* caught) when it does not.
EnsureAccess(s, dir) ==
  LET c == calls[s] IN
  /\ c.op \in LayoutOps /\ c.pc = AccessPc(dir)
  /\ calls' = [calls EXCEPT ![s] =
                 IF dir \in dirs THEN AfterEnsure(c, dir)
                 ELSE [c EXCEPT !.pc = MkdirPc(dir)]]
  /\ UNCHANGED <<arch, mods, dirs, nextId, now, ncalls, faults, prev,
                 scripts, envProjectId, globalProjectId>>

\* fs.mkdir(dir, { recursive: true }) settles; the call notes that it has
\* called mkdir for dir.
EnsureMkdir(s, dir) ==
  LET c == calls[s]
      made == mkdir(dirs, dir)
      noted == [c EXCEPT !.in = [mkdirs |-> c.in.mkdirs \cup {dir}]]
  IN
  /\ c.op \in LayoutOps /\ c.pc = MkdirPc(dir)
  /\ dirs' = made.dirs
  /\ calls' = [calls EXCEPT ![s] =
                 IF made.error = "none" THEN AfterEnsure(noted, dir)
                 ELSE Finish(noted, "thrown", [kind |-> "error", code |-> made.error])]
  /\ UNCHANGED <<arch, mods, nextId, now, ncalls, faults, prev,
                 scripts, envProjectId, globalProjectId>>

\* fs.writeFile of writeScript.
WriteScriptFileStep(s) ==
  LET c == calls[s] IN
  /\ c.op = "writeScript" /\ c.pc = "writeFile"
  /\ scripts' = writeScript(scripts, c.scriptDoc)
  /\ calls' = [calls EXCEPT ![s] = Finish(c, "returned", [kind |-> "void"])]
  /\ UNCHANGED <<arch, mods, dirs, nextId, now, ncalls, faults, prev,
                 envProjectId, globalProjectId>>

LayoutScriptDocs ==
  {NewScriptDocumentation(id, in, 0) : id \in ScriptIds, in \in ScriptInputs}

LayoutStep(s) ==
  \/ CallInitializeProjectStorage(s)
  \/ \E scriptDoc \in LayoutScriptDocs : CallWriteScript(s, scriptDoc)
  \/ \E dir \in LayoutDirs : EnsureAccess(s, dir)
  \/ \E dir \in LayoutDirs : EnsureMkdir(s, dir)
  \/ WriteScriptFileStep(s)

LayoutNext == \E s \in Slots : LayoutStep(s)

LayoutSpec == Init /\ [][LayoutNext]_vars

\* ================================================================ claims
\* In a serial run the call issued last is the one in slot 1.
Last == calls[1]

Done(c) == c.pc = "done"
Returned(c) == Done(c) /\ c.outcome = "returned"
IsUpsert(c) == c.op = "setModuleDetails"
IsDelete(c) == c.op = "deleteModule"
IsGet(c) == c.op = "getModuleDetails"

\* getModuleByName reports the module absent (structuredContent.module is null).
GetAbsent(result) == result.kind \in {"noArchitecture", "moduleNotFound"}

Ids(modules) == {modules[i].id : i \in 1..Len(modules)}

\* ------------------------------------------------------------------- C1
\* C1 as stated, for every project: a get-module-details that follows a
\* successful set-module-details of the same name returns the details with
\* the name and description given, and a repeated set-module-details of the
\* same name returns the same moduleId.
C1_Original ==
  /\ (Returned(Last) /\ IsGet(Last) /\ prev.op = "setModuleDetails"
        /\ prev.outcome = "returned" /\ prev.name = Last.name)
     => /\ Last.result.kind = "details"
        /\ Last.result.module.name = prev.name
        /\ Last.result.module.description = prev.description
  /\ (Returned(Last) /\ IsUpsert(Last) /\ prev.op = "setModuleDetails"
        /\ prev.outcome = "returned" /\ prev.name = Last.name)
     => Last.result.moduleId = prev.result.moduleId

\* C1 amended: the same, on a project whose architecture document exists
\* when set-module-details is called; the moduleId returned is also the
\* moduleId of the document returned by get-module-details.
C1_UpsertThenGet ==
  /\ (Returned(Last) /\ IsGet(Last) /\ prev.op = "setModuleDetails"
        /\ prev.outcome = "returned" /\ prev.name = Last.name
        /\ prev.hadArchitecture)
     => /\ Last.result.kind = "details"
        /\ Last.result.module.name = prev.name
        /\ Last.result.module.description = prev.description
        /\ Last.result.module.moduleId = prev.result.moduleId
  /\ (Returned(Last) /\ IsUpsert(Last) /\ prev.op = "setModuleDetails"
        /\ prev.outcome = "returned" /\ prev.name = Last.name
        /\ prev.hadArchitecture)
     => Last.result.moduleId = prev.result.moduleId

C1_Witness ==
  /\ Returned(Last) /\ IsGet(Last) /\ prev.op = "setModuleDetails"
  /\ prev.outcome = "returned" /\ prev.name = Last.name /\ prev.hadArchitecture
  /\ prev.nameCount = 1
  /\ Last.result.kind = "details"

\* ------------------------------------------------------------------- C2
\* C2 as stated: after two set-module-details of the same name with
\* different descriptions the architecture lists exactly one summary of that
\* name, and it carries the second description.
C2_Original ==
  (Returned(Last) /\ IsUpsert(Last) /\ prev.op = "setModuleDetails"
     /\ prev.outcome = "returned" /\ prev.name = Last.name
     /\ prev.description # Last.description)
  => /\ IsDoc(arch)
     /\ Count(arch.modules, Last.name) = 1
     /\ \A i \in 1..Len(arch.modules) :
          arch.modules[i].name = Last.name
            => arch.modules[i].description = Last.description

\* C2 amended: the same, when the architecture document exists and lists at
\* most one summary of that name before the two calls.
C2_OneSummary ==
  (Returned(Last) /\ IsUpsert(Last) /\ prev.op = "setModuleDetails"
     /\ prev.outcome = "returned" /\ prev.name = Last.name
     /\ prev.description # Last.description
     /\ prev.hadArchitecture /\ prev.nameCount <= 1)
  => /\ IsDoc(arch)
     /\ Count(arch.modules, Last.name) = 1
     /\ \A i \in 1..Len(arch.modules) :
          arch.modules[i].name = Last.name
            => arch.modules[i].description = Last.description

C2_Witness ==
  /\ Returned(Last) /\ IsUpsert(Last) /\ prev.op = "setModuleDetails"
  /\ prev.outcome = "returned" /\ prev.name = Last.name
  /\ prev.description # Last.description
  /\ prev.hadArchitecture /\ prev.nameCount = 0
  /\ Count(arch.modules, Last.name) = 1

\* ------------------------------------------------------------------- C3
\* C3 as stated: no step changes the id of the (first) summary of a name
\* that the architecture lists before and after the step.
C3_IdStable ==
  [][\A n \in Names :
       (IsDoc(arch) /\ IsDoc(arch') /\ Count(arch.modules, n) > 0
          /\ Count(arch'.modules, n) > 0)
       => Find(arch'.modules, n).id = Find(arch.modules, n).id]_vars

\* ------------------------------------------------------------------- C4
\* C4: when the architecture exists and lists no summary of the name, a
\* successful set-module-details appends exactly one summary, and the id of
\* that summary, the moduleId of the details document written and the id
\* returned are one and the same assigned id.
C4_AppendsOne ==
  (Returned(Last) /\ IsUpsert(Last) /\ IsDoc(Last.pre.arch)
     /\ Count(Last.pre.arch.modules, Last.name) = 0)
  => /\ IsDoc(arch)
     /\ Len(arch.modules) = Len(Last.pre.arch.modules) + 1
     /\ SubSeq(arch.modules, 1, Len(Last.pre.arch.modules)) = Last.pre.arch.modules
     /\ LET m == arch.modules[Len(arch.modules)] IN
          /\ m.name = Last.name
          /\ m.description = Last.description
          /\ m.id # NoId
          /\ m.id \notin Ids(Last.pre.arch.modules)
          /\ Last.result.moduleId = m.id
          /\ m.id \in DOMAIN mods
          /\ IsDoc(mods[m.id])
          /\ mods[m.id].moduleId = m.id

\* setArchitecture with an empty module list, then one set-module-details.
C4_Witness ==
  /\ Returned(Last) /\ IsUpsert(Last) /\ IsDoc(Last.pre.arch)
  /\ Last.pre.arch.modules = <<>>
  /\ Len(arch.modules) = 1
  /\ arch.modules[1].id = Last.result.moduleId

\* ------------------------------------------------------------------- C5
\* The summary that a successful delete-module removed is gone from the
\* architecture and its details file is gone from the modules directory.
DeletedIsGone ==
  (Returned(Last) /\ IsDelete(Last) /\ Last.result.kind = "deleted")
  => /\ IsDoc(arch)
     /\ Last.module.id \in Ids(Last.pre.arch.modules)
     /\ Last.module.id \notin Ids(arch.modules)
     /\ Last.module.id \notin listModules

\* C5 as stated: moreover a get-module-details of the name that follows the
\* delete reports the module absent.
C5_Original ==
  /\ DeletedIsGone
  /\ (Returned(Last) /\ IsGet(Last) /\ prev.op = "deleteModule"
        /\ prev.outcome = "returned" /\ prev.result.kind = "deleted"
        /\ prev.name = Last.name)
     => GetAbsent(Last.result)

\* C5 amended: the get reports the module absent when the architecture
\* listed the name once; listed more than once, a later summary of that name
\* is found instead.
C5_DeleteThenGet ==
  /\ DeletedIsGone
  /\ (Returned(Last) /\ IsGet(Last) /\ prev.op = "deleteModule"
        /\ prev.outcome = "returned" /\ prev.result.kind = "deleted"
        /\ prev.name = Last.name /\ prev.nameCount = 1)
     => GetAbsent(Last.result)

C5_Witness ==
  /\ Returned(Last) /\ IsGet(Last) /\ prev.op = "deleteModule"
  /\ prev.outcome = "returned" /\ prev.result.kind = "deleted"
  /\ prev.name = Last.name /\ prev.nameCount = 1
  /\ Last.result.kind = "moduleNotFound"
  /\ prev.moduleId \notin listModules

\* ------------------------------------------------------------------- C6
\* C6: delete-module of a name the architecture does not list returns
\* "module not found", never starts an unlink or a write, and leaves the
\* architecture and every details file as they were.
C6_NotFoundTouchesNothing ==
  (IsDelete(Last) /\ IsDoc(Last.pre.arch)
     /\ Count(Last.pre.arch.modules, Last.name) = 0)
  => /\ Last.pc \in {"readArch", "done"}
     /\ arch = Last.pre.arch
     /\ mods = Last.pre.mods
     /\ Done(Last) => /\ Last.outcome = "returned"
                      /\ Last.result.kind = "moduleNotFound"

C6_Witness ==
  /\ Returned(Last) /\ IsDelete(Last) /\ IsDoc(Last.pre.arch)
  /\ Count(Last.pre.arch.modules, Last.name) = 0
  /\ Len(Last.pre.arch.modules) > 0
  /\ Last.pre.mods # <<>>
  /\ Last.result.kind = "moduleNotFound"

\* ------------------------------------------------------------------- C7
\* C7: delete-module on a project with no architecture document never starts
\* an unlink or a write, leaves the architecture absent and the details
\* files as they were, and, unless the read itself failed with an I/O error,
\* returns "architecture not found".
C7_NoArchitecture ==
  (IsDelete(Last) /\ Last.pre.arch = Absent)
  => /\ Last.pc \in {"readArch", "done"}
     /\ arch = Absent
     /\ mods = Last.pre.mods
     /\ (Done(Last) /\ ~Last.fault)
          => /\ Last.outcome = "returned"
             /\ Last.result.kind = "noArchitecture"

C7_Witness ==
  /\ Returned(Last) /\ IsDelete(Last) /\ Last.pre.arch = Absent
  /\ Last.pre.mods # <<>>
  /\ Last.result.kind = "noArchitecture"
  /\ arch = Absent

\* ------------------------------------------------------------------- C8
\* C8: the two-file update is not atomic: no step of any handler changes
\* both the architecture document and a details file, so the steps of
\* another call can fall between the two.
C8_NotAtomic == [][~(arch' # arch /\ mods' # mods)]_vars

\* A set-module-details and a delete-module of the same name, both issued in
\* the same state (no details file without a summary) and both returned
\* successfully, have left a details file that no summary refers to.
C8_OutOfSync ==
  /\ \A s \in Slots : Returned(calls[s])
  /\ \E s, r \in Slots :
       /\ IsUpsert(calls[s]) /\ IsDelete(calls[r])
       /\ calls[s].name = calls[r].name
       /\ calls[r].result.kind = "deleted"
  /\ calls[1].pre = calls[2].pre
  /\ IsDoc(calls[1].pre.arch)
  /\ DOMAIN calls[1].pre.mods \subseteq Ids(calls[1].pre.arch.modules)
  /\ IsDoc(arch)
  /\ \E id \in DOMAIN mods : id \notin Ids(arch.modules)

\* ------------------------------------------------------------------- C9
\* C9: set-module-details on a project with no architecture document writes
\* a full details document under a newly minted id, returns that id, and
\* leaves the architecture absent and the other details files as they were.
C9_BareDetails ==
  (Returned(Last) /\ IsUpsert(Last) /\ Last.pre.arch = Absent)
  => /\ arch = Absent
     /\ Last.result.kind = "moduleSaved"
     /\ LET id == Last.result.moduleId IN
          /\ id = Last.pre.nextId
          /\ id \notin DOMAIN Last.pre.mods
          /\ DOMAIN mods = DOMAIN Last.pre.mods \cup {id}
          /\ \A i \in DOMAIN Last.pre.mods : mods[i] = Last.pre.mods[i]
          /\ IsDoc(mods[id])
          /\ mods[id].moduleId = id
          /\ mods[id].name = Last.name
          /\ mods[id].description = Last.in.description
          /\ mods[id].inputs = Last.in.inputs
          /\ mods[id].outputs = Last.in.outputs
          /\ mods[id].dependencies =
               (IF Last.in.dependencies = <<>> THEN <<>> ELSE Last.in.dependencies[1])
          /\ mods[id].files = (IF Last.in.files = <<>> THEN <<>> ELSE Last.in.files[1])
          /\ mods[id].usageExamples =
               (IF Last.in.usageExamples = <<>> THEN <<>> ELSE Last.in.usageExamples[1])
          /\ mods[id].notes = (IF Last.in.notes = Undefined THEN "" ELSE Last.in.notes)

\* A second bare details document, written with every optional argument
\* undefined.
C9_Witness ==
  /\ Returned(Last) /\ IsUpsert(Last) /\ Last.pre.arch = Absent
  /\ Last.pre.mods # <<>>
  /\ Last.in.notes = Undefined
  /\ arch = Absent
  /\ Last.result.moduleId \in DOMAIN mods

\* ------------------------------------------------------------------ C10
\* C10: when set-module-details finds a summary of the name (the first in
\* list order), it returns that summary's id and the summary keeps its id,
\* name, inputs, outputs and createdAt; its description becomes the one
\* given and its updatedAt a clock reading not before the old one.
C10_UpdateInPlace ==
  (Returned(Last) /\ IsUpsert(Last) /\ IsDoc(Last.pre.arch))
  => \A i \in 1..Len(Last.pre.arch.modules) :
       LET old == Last.pre.arch.modules[i] IN
       (/\ old.name = Last.name
        /\ \A j \in 1..(i - 1) : Last.pre.arch.modules[j].name # Last.name)
       => /\ IsDoc(arch)
          /\ Len(arch.modules) = Len(Last.pre.arch.modules)
          /\ Last.result.moduleId = old.id
          /\ arch.modules[i].id = old.id
          /\ arch.modules[i].name = old.name
          /\ arch.modules[i].inputs = old.inputs
          /\ arch.modules[i].outputs = old.outputs
          /\ arch.modules[i].createdAt = old.createdAt
          /\ arch.modules[i].description = Last.description
          /\ arch.modules[i].updatedAt >= old.updatedAt
          /\ arch.modules[i].updatedAt <= now

\* A summary whose inputs and outputs were set by set-project-architecture
\* got a new description and a later updatedAt.
C10_Witness ==
  /\ Returned(Last) /\ IsUpsert(Last) /\ IsDoc(Last.pre.arch)
  /\ Count(Last.pre.arch.modules, Last.name) > 0
  /\ LET i == FindIndex(arch.modules, Last.name) IN
       /\ arch.modules[i].inputs = "in"
       /\ arch.modules[i].description # Last.pre.arch.modules[i].description
       /\ arch.modules[i].updatedAt > arch.modules[i].createdAt

\* ------------------------------------------------------------------ C11
\* C11: in a serial run, when set-module-details has returned for a name on
\* a project that had an architecture, then after the next completed
\* set-project-architecture, set-module-details or delete-module call the
\* summary the architecture lists under that name (the first, if several)
\* has a ModuleDetails document stored under its id.
C11_DetailsFollowSummary ==
  (/\ Returned(Last) /\ Writing(Last)
   /\ prev.op = "setModuleDetails" /\ prev.outcome = "returned" /\ prev.hadArchitecture
   /\ IsDoc(arch) /\ FindIndex(arch.modules, prev.name) # 0)
  => LET id == Find(arch.modules, prev.name).id IN
     /\ id \in listModules
     /\ IsDoc(readModule(mods, id))
     /\ readModule(mods, id).moduleId = id

\* ------------------------------------------------------------------ C16
\* C16: normalizeProjectId of a non-empty string returns a string of the same
\* length that agrees with the input wherever the input's character is in
\* [A-Za-z0-9_-] and has "_" everywhere else ("/home/me/proj 1" gives
\* "_home_me_proj_1"); of an empty or undefined input it throws.
C16_Normalize ==
  LET c == calls[1] IN
  c.op = "normalizeProjectId" =>
    LET raw == c.in.workdir IN
    /\ IF raw.kind = "string" /\ Len(raw.chars) > 0
       THEN /\ c.outcome = "returned"
            /\ c.result.kind = "string"
            /\ Len(c.result.chars) = Len(raw.chars)
            /\ \A i \in 1..Len(raw.chars) :
                 c.result.chars[i] = IF raw.chars[i] \in AllowedChars
                                     THEN raw.chars[i] ELSE "_"
       ELSE c.outcome = "thrown" /\ c.result = Thrown
    /\ raw = Str(ScenarioWorkdir)
       => c.result = Str(<<"_", "h", "o", "m", "e", "_", "m", "e", "_",
                           "p", "r", "o", "j", "_", "1">>)

\* The scenario's workdir has been normalized, and so has a string that
\* holds two characters outside the class.
C16_Witness ==
  /\ calls[1].op = "normalizeProjectId"
  /\ calls[1].outcome = "returned"
  /\ calls[1].in.workdir \in {Str(ScenarioWorkdir), Str(<<"/", ".">>)}
  /\ calls[1].result \in {Str(<<"_", "h", "o", "m", "e", "_", "m", "e", "_",
                                "p", "r", "o", "j", "_", "1">>),
                          Str(<<"_", "_">>)}

\* ------------------------------------------------------------------ C17
\* C17 as stated: the project id a tool call uses is the projectId argument
\* whenever one is passed, otherwise the id taken from MCP_PROJECT_ID
\* whenever the variable is set, otherwise "default-project".
C17_Original ==
  LET c == calls[1] IN
  c.op \in ToolNames =>
    c.result.projectId =
      IF c.in.projectId.kind = "string" THEN c.in.projectId
      ELSE IF envProjectId.kind = "string" THEN normalizeProjectId(envProjectId)
      ELSE DefaultProjectId

\* C17 amended: the project id a tool call uses is the projectId argument
\* when it is a non-empty string, otherwise the normalized MCP_PROJECT_ID
\* when that was a non-empty string at startup, otherwise "default-project";
\* an empty string counts as not given, in the call and in the environment.
C17_Priority ==
  LET c == calls[1] IN
  c.op \in ToolNames =>
    c.result.projectId =
      IF c.in.projectId.kind = "string" /\ Len(c.in.projectId.chars) > 0
      THEN c.in.projectId
      ELSE IF envProjectId.kind = "string" /\ Len(envProjectId.chars) > 0
      THEN normalizeProjectId(envProjectId)
      ELSE DefaultProjectId

\* A call that passes the empty string has used the id of the environment,
\* which normalization had changed.
C17_Witness ==
  /\ calls[1].op \in ToolNames
  /\ calls[1].in.projectId = Str(<<>>)
  /\ envProjectId.kind = "string"
  /\ calls[1].result.projectId = normalizeProjectId(envProjectId)
  /\ calls[1].result.projectId # envProjectId

\* ------------------------------------------------------------------ C18
\* C18: the project id a tool or resource handler hands to a storage
\* function holds only characters in [A-Za-z0-9_-] (it is an output of
\* normalizeProjectId, or "default-project").
C18_OnlyNormalizedIds ==
  LET c == calls[1] IN
  c.op \in ToolNames \cup ResourceNames =>
    \A i \in 1..Len(c.result.projectId.chars) :
      c.result.projectId.chars[i] \in AllowedChars

\* ------------------------------------------------------------------ C12
\* Structural equality of two JS objects of a type: the same value at every
\* key, a missing optional property counting as undefined, and no other keys.
SameObject(a, b, keys, optional) ==
  /\ DOMAIN a \subseteq keys /\ DOMAIN b \subseteq keys
  /\ \A k \in keys : IF k \in optional THEN Get(a, k) = Get(b, k) ELSE a[k] = b[k]

SameArchitecture(a, b) ==
  /\ SameObject([a EXCEPT !.modules = <<>>], [b EXCEPT !.modules = <<>>],
                ArchitectureKeys, ArchitectureOptional)
  /\ Len(a.modules) = Len(b.modules)
  /\ \A i \in 1..Len(a.modules) :
       SameObject(a.modules[i], b.modules[i], SummaryKeys, SummaryOptional)

\* The file a storage call addressed, as it was in the given files.
FileOf(c, files) ==
  IF c.op \in {"readArchitecture", "writeArchitecture"} THEN files.arch
  ELSE IF c.op \in {"readModule", "writeModule", "deleteModule"}
  THEN readModule(files.mods, c.in.id)
  ELSE IF c.in.id \in DOMAIN files.scripts THEN files.scripts[c.in.id] ELSE Absent

Disk == [arch |-> arch, mods |-> mods, scripts |-> scripts, dirs |-> dirs]

\* C12: a read that follows a completed write of document d at the same
\* project and entity id returns a document structurally equal to d,
\* whatever the file held before that write; and after the write the file
\* holds the text of d alone.
C12_RoundTrip ==
  /\ (/\ Returned(Last) /\ Returned(prev)
      /\ <<prev.op, Last.op>> \in {<<"writeArchitecture", "readArchitecture">>,
                                   <<"writeModule", "readModule">>,
                                   <<"writeScript", "readScript">>}
      /\ prev.op # "writeArchitecture" => prev.in.id = Last.in.id)
     => /\ Last.result.kind = "value"
        /\ CASE Last.op = "readArchitecture" ->
                  SameArchitecture(Last.result.value, prev.in.doc)
             [] Last.op = "readModule" ->
                  SameObject(Last.result.value, prev.in.doc, ModuleKeys, ModuleOptional)
             [] Last.op = "readScript" ->
                  SameObject(Last.result.value, prev.in.doc, ScriptKeys, ScriptOptional)
  /\ (Returned(Last) /\ Last.op \in {"writeArchitecture", "writeModule", "writeScript"})
     => FileOf(Last, Disk) =
          CASE Last.op = "writeArchitecture" -> stringifyArchitecture(Last.in.doc)
            [] Last.op = "writeModule" -> stringifyModule(Last.in.doc)
            [] Last.op = "writeScript" -> stringifyScript(Last.in.doc)

\* A module document without notes has been written over one with notes and
\* another description, and read back; an architecture whose summaries omit
\* properties can be read back too.
C12_Witness ==
  /\ Returned(Last) /\ Returned(prev)
  /\ prev.op = "writeModule" /\ Last.op = "readModule" /\ prev.in.id = Last.in.id
  /\ IsDoc(FileOf(prev, prev.pre))
  /\ FileOf(prev, prev.pre).notes = "n1"
  /\ prev.in.doc.description # FileOf(prev, prev.pre).description
  /\ "notes" \notin DOMAIN Last.result.value
  /\ Last.result.value.description = prev.in.doc.description

\* ------------------------------------------------------------------ C13
\* C13: readArchitecture, readModule and readScript return null exactly
\* when the file does not exist and no operation fails; when an I/O error
\* occurs or the content does not parse they throw; a read changes no file.
C13_AbsentOrError ==
  Last.op \in {"readArchitecture", "readModule", "readScript"} =>
    LET file == FileOf(Last, Last.pre) IN
    /\ (Last.outcome = "returned" /\ Last.result = Null)
         <=> (file = Absent /\ ~Last.fault)
    /\ (Last.fault \/ file = Corrupt)
         <=> (Last.outcome = "thrown" /\ Last.result.kind = "error")
    /\ (~Last.fault /\ IsDoc(file)) => Last.result.kind = "value"
    /\ Disk = Last.pre

\* A read of a truncated file has thrown the parse error, and a read of a
\* missing file has returned null.
C13_Witness ==
  /\ Last.op \in {"readArchitecture", "readModule", "readScript"}
  /\ ~Last.fault
  /\ FileOf(Last, Last.pre) = Corrupt
  /\ Last.outcome = "thrown"
  /\ Last.result = [kind |-> "error", code |-> "SyntaxError"]
  /\ prev.op \in {"readArchitecture", "readModule", "readScript"}
  /\ prev.result = Null

\* ------------------------------------------------------------------ C14
\* C14: listModules (listScripts) on a project whose modules/ (scripts/)
\* directory does not exist returns the empty list and, unless readdir fails
\* with another error, does not throw.
C14_ListEmpty ==
  /\ (Last.op = "listModules" /\ ~Last.fault /\ "modules" \notin Last.pre.dirs)
     => Last.outcome = "returned" /\ Last.result = [kind |-> "list", ids |-> {}]
  /\ (Last.op = "listScripts" /\ ~Last.fault /\ "scripts" \notin Last.pre.dirs)
     => Last.outcome = "returned" /\ Last.result = [kind |-> "list", ids |-> {}]
  /\ (Last.op \in {"listModules", "listScripts"} /\ ~Last.fault)
     => Last.outcome = "returned"

\* listScripts has returned [] on a project that has module documents but no
\* scripts directory, after listModules returned [] on the empty project.
C14_Witness ==
  /\ Last.op = "listScripts" /\ Last.outcome = "returned"
  /\ Last.result.ids = {}
  /\ "scripts" \notin dirs /\ "modules" \in dirs /\ DOMAIN mods # {}
  /\ prev.op = "writeModule"

\* ------------------------------------------------------------------ C15
\* C15: deleteModule of a file that is absent returns without an error and
\* changes nothing; after a deleteModule that returned the file is gone and
\* nothing else has changed, so a second deleteModule leaves the state the
\* first one left; an unlink that fails with another error throws.
C15_DeleteIdempotent ==
  Last.op = "deleteModule" =>
    /\ ~Last.fault
       => /\ Last.outcome = "returned"
          /\ mods = deleteModule(Last.pre.mods, Last.in.id)
          /\ Last.in.id \notin DOMAIN mods
    /\ (~Last.fault /\ Last.in.id \notin DOMAIN Last.pre.mods) => Disk = Last.pre
    /\ Last.fault => Last.outcome = "thrown" /\ Disk = Last.pre
    /\ [Disk EXCEPT !.mods = <<>>] = [Last.pre EXCEPT !.mods = <<>>]
    /\ (prev.op = "deleteModule" /\ Returned(prev) /\ prev.in.id = Last.in.id
          /\ ~Last.fault)
       => Returned(Last) /\ Disk = Last.pre

\* A module document was deleted, and deleted again.
C15_Witness ==
  /\ Last.op = "deleteModule" /\ Returned(Last)
  /\ prev.op = "deleteModule" /\ Returned(prev) /\ prev.in.id = Last.in.id
  /\ prev.in.id \in DOMAIN prev.pre.mods
  /\ Disk = Last.pre

C20_GetReturnsSaved ==
  /\ (Returned(Last) /\ Last.op = "getScript"
        /\ prev.op = "setScript" /\ prev.outcome = "returned" /\ prev.name = Last.name)
     => /\ Last.result.kind = "script"
        /\ Last.result.script.scriptId = prev.result.scriptId
        /\ Last.result.script.description = prev.description
  /\ (Done(Last) /\ Last.op = "getScript"
        /\ \A id \in DOMAIN scripts : scripts[id].scriptName # Last.name)
     => Returned(Last) /\ Last.result.kind = "scriptNotFound"

\* ------------------------------------------------------------------ C21
\* C21: once architecture.json holds an architecture it holds one in every
\* later state: no step of set-project-architecture, set-module-details,
\* delete-module, get-module-details or of the script tools removes the file
\* or leaves it without an architecture.
C21_ArchitectureStays ==
  [][IsDoc(arch) => IsDoc(arch')]_vars

\* The architecture is still there after delete-module has removed its last
\* summary, with a script documented in the project.
C21_Witness ==
  /\ Returned(Last) /\ IsDelete(Last) /\ Last.result.kind = "deleted"
  /\ IsDoc(Last.pre.arch)
  /\ IsDoc(arch) /\ arch.modules = <<>>
  /\ DOMAIN scripts # {}

\* ------------------------------------------------------------------ C22
\* The index of the first summary named `name`.
FirstNamed(modules, name) ==
  CHOOSE i \in 1..Len(modules) :
    /\ modules[i].name = name
    /\ \A j \in 1..(i - 1) : modules[j].name # name

Without(seq, i) == SubSeq(seq, 1, i - 1) \o SubSeq(seq, i + 1, Len(seq))

\* The call issued last found an architecture that lists its name more than
\* once, and returned.
DuplicateCase ==
  /\ Returned(Last) /\ IsDoc(Last.pre.arch)
  /\ Count(Last.pre.arch.modules, Last.name) >= 2

\* C22: when the architecture lists a name more than once, every lookup by
\* that name works on the first such summary in list order.
\* get-module-details answers with that summary's details (or the summary
\* itself when it has none); set-module-details updates that summary in
\* place, returns its id and writes the details under it; delete-module
\* removes that one summary and the details under its id, and leaves every
\* other summary, the later ones of the same name included, and every other
\* details file as they were.
C22_FirstMatch ==
  DuplicateCase =>
    LET before == Last.pre.arch.modules
        i == FirstNamed(before, Last.name)
        first == before[i]
    IN
    /\ IsGet(Last) =>
         /\ Last.result.kind \in {"details", "noDetails"}
         /\ Last.result.kind = "details" =>
              /\ first.id \in DOMAIN Last.pre.mods
              /\ Last.result.module = Last.pre.mods[first.id]
         /\ Last.result.kind = "noDetails" =>
              /\ first.id \notin DOMAIN Last.pre.mods
              /\ Last.result.module = first
    /\ IsUpsert(Last) =>
         /\ Last.result.moduleId = first.id
         /\ Len(arch.modules) = Len(before)
         /\ \A j \in 1..Len(before) : j # i => arch.modules[j] = before[j]
         /\ arch.modules[i].id = first.id
         /\ arch.modules[i].name = Last.name
         /\ arch.modules[i].description = Last.description
         /\ DOMAIN mods = DOMAIN Last.pre.mods \cup {first.id}
         /\ mods[first.id].name = Last.name
         /\ \A id \in DOMAIN Last.pre.mods : id # first.id => mods[id] = Last.pre.mods[id]
    /\ IsDelete(Last) =>
         /\ Last.result.kind = "deleted"
         /\ arch.modules = Without(before, i)
         /\ Count(arch.modules, Last.name) = Count(before, Last.name) - 1
         /\ DOMAIN mods = DOMAIN Last.pre.mods \ {first.id}
         /\ \A id \in DOMAIN mods : mods[id] = Last.pre.mods[id]

\* delete-module of a name listed twice, the first with details: the second
\* summary of that name is all that is left.
C22_Witness ==
  /\ DuplicateCase /\ IsDelete(Last)
  /\ Last.module.id \in DOMAIN Last.pre.mods
  /\ Len(arch.modules) = 1
  /\ arch.modules[1].name = Last.name
  /\ arch.modules[1] = Last.pre.arch.modules[2]

\* ------------------------------------------------------------------ C23
\* The call issued last found an architecture that lists its name, with no
\* details file under the id of the summary the lookup finds.
SummaryWithoutDetails ==
  /\ Done(Last) /\ IsDoc(Last.pre.arch)
  /\ Find(Last.pre.arch.modules, Last.name) # NoModule
  /\ Find(Last.pre.arch.modules, Last.name).id \notin DOMAIN Last.pre.mods

\* C23: a summary without a details file is tolerated.  get-module-details
\* of its name returns (it neither throws nor reports the module not found)
\* with the summary and the note that it has no details; delete-module of
\* its name returns too, reports the deletion, removes the summary and
\* leaves the modules directory as it was.
C23_SummaryWithoutDetails ==
  SummaryWithoutDetails =>
    LET summary == Find(Last.pre.arch.modules, Last.name) IN
    /\ IsGet(Last) =>
         /\ Last.outcome = "returned"
         /\ Last.result = [kind |-> "noDetails", module |-> summary]
    /\ IsDelete(Last) =>
         /\ Last.outcome = "returned"
         /\ Last.result.kind = "deleted"
         /\ summary.id \notin Ids(arch.modules)
         /\ Len(arch.modules) = Len(Last.pre.arch.modules) - 1
         /\ mods = Last.pre.mods

\* get-module-details of a module that set-project-architecture listed and
\* that never got details.
C23_Witness ==
  /\ SummaryWithoutDetails /\ IsGet(Last)
  /\ Last.result.kind = "noDetails"
  /\ Last.result.module.name = Last.name

\* delete-module of such a module.
C23_WitnessDelete ==
  /\ SummaryWithoutDetails /\ IsDelete(Last)
  /\ Last.result.kind = "deleted"
  /\ Last.pre.mods = <<>>

\* ------------------------------------------------------------------ C24
\* A file operation of the call in flight fails in this step.
FaultAt(pc) == calls[1].pc = pc /\ calls'[1].fault

BaseName(file) == SubSeq(file, 1, Len(file) - Len(Json))

BaseNames(files) == {BaseName(file) : file \in {f \in files : endsWith(f, Json)}}

IsList(c) == Returned(c) /\ c.op \in {"listModules", "listScripts"}

ListedDirectory(c) ==
  IF c.op = "listModules" THEN DOMAIN c.pre.mods ELSE DOMAIN c.pre.scripts

\* C25: listModules and listScripts return exactly the names, without the
\* .json extension, of the files of the directory whose names end in .json.
\* So every id under which writeModule (writeScript) has stored a file is
\* listed as that very string, and a file whose name does not end in .json
\* adds nothing to the list.
C25_ListsBaseNames ==
  IsList(Last) =>
    /\ Last.result.ids = BaseNames(ListedDirectory(Last))
    /\ \A id \in FileIds :
         (IF Last.op = "listModules" THEN getModuleFile(id) ELSE getScriptFile(id))
            \in ListedDirectory(Last)
         => id \in Last.result.ids

\* What does hold: an id without ".json" in it is listed as stored, and
\* only files ending in .json are listed.
C25_PlainIds ==
  IsList(Last) =>
    /\ \A file \in ListedDirectory(Last) :
         (endsWith(file, Json) /\ indexOf(BaseName(file), Json) = 0)
         => BaseName(file) \in Last.result.ids
    /\ Cardinality(Last.result.ids)
         <= Cardinality({f \in ListedDirectory(Last) : endsWith(f, Json)})

\* ------------------------------------------------------------------ C26
\* C26: with uuidv4 never returning the same value twice, no two summaries
\* of the stored architecture have the same id, in every reachable state and
\* whatever the calls were, inputs that list a name twice included.
C26_DistinctIds ==
  IsDoc(arch) =>
    \A i, j \in 1..Len(arch.modules) :
      arch.modules[i].id = arch.modules[j].id => i = j

\* An architecture that lists a name twice, after set-module-details has
\* added a module of another name.
C26_Witness ==
  /\ Returned(Last) /\ IsUpsert(Last)
  /\ IsDoc(arch) /\ Len(arch.modules) = 3
  /\ arch.modules[1].name = arch.modules[2].name
  /\ Cardinality(Ids(arch.modules)) = 3

\* ------------------------------------------------------------------ C27
\* C27: ensuring the directories of a project is idempotent and tolerates a
\* race.  No step of initializeProjectStorage or of writeScript removes a
\* directory; a step taken when the directory it is about exists already
\* (found by fs.access, or made by another call between this call's
\* fs.access and its fs.mkdir) changes no directory; no such call ends with
\* an error; and when initializeProjectStorage returns, the project root
\* and modules/ exist.
C27_EnsureIdempotent ==
  [][/\ dirs \subseteq dirs'
     /\ LayoutDirs \subseteq dirs => dirs' = dirs
     /\ \A s \in Slots, dir \in LayoutDirs :
          (calls[s].pc \in {AccessPc(dir), MkdirPc(dir)} /\ dir \in dirs
             /\ calls'[s] # calls[s])
          => dirs' = dirs
     /\ \A s \in Slots :
          (calls'[s].op \in LayoutOps /\ Done(calls'[s]))
          => /\ calls'[s].outcome = "returned"
             /\ {"root", "modules"} \subseteq dirs'
    ]_vars

\* Both calls have called mkdir for the project root: the one whose mkdir
\* settled second found the directory made by the other after its own
\* fs.access had failed.  Both have returned.
C27_Witness ==
  /\ \A s \in Slots :
       /\ calls[s].op \in LayoutOps /\ Returned(calls[s])
       /\ "root" \in calls[s].in.mkdirs
  /\ LayoutDirs \subseteq dirs

\* ------------------------------------------------------------------ C28
\* Every details file is that of a summary: the architecture lists a module
\* with the file's id and the name stored in it.
NoOrphans(architecture, files) ==
  \A id \in DOMAIN files :
    IsDoc(files[id]) =>
      /\ IsDoc(architecture)
      /\ \E i \in 1..Len(architecture.modules) :
           /\ architecture.modules[i].id = id
           /\ architecture.modules[i].name = files[id].name

\* C28, for projects that have an architecture: in a serial run without I/O
\* errors no call leaves a details file that no summary of the same id and
\* name refers to.  Every call that found an architecture and no such file
\* leaves none when it is over.
C28_NoOrphans ==
  (Done(Last) /\ IsDoc(Last.pre.arch) /\ NoOrphans(Last.pre.arch, Last.pre.mods))
  => NoOrphans(arch, mods)

\* What does hold: the calls other than set-project-architecture leave no
\* such file.
C28_OtherCalls ==
  (Done(Last) /\ IsDoc(Last.pre.arch) /\ NoOrphans(Last.pre.arch, Last.pre.mods)
     /\ Last.op # "setArchitecture")
  => NoOrphans(arch, mods)

\* ------------------------------------------------------------------ C29
\* The call in slot 1 is a set-module-details or a delete-module that found
\* an architecture and no details file without a summary.  It may be at any
\* of its steps: each state is one in which the process may stop.
StartedConsistent ==
  /\ Last.op \in {"setModuleDetails", "deleteModule"}
  /\ IsDoc(Last.pre.arch)
  /\ NoOrphans(Last.pre.arch, Last.pre.mods)

\* C29: such a call, stopped between any two of its file operations with no
\* other call interleaved, leaves the architecture in place and no details
\* file without a summary of its id and name; what it can leave is a summary
\* without a details file.  set-module-details writes the architecture
\* before the details, delete-module unlinks the details before it writes
\* the architecture.
C29_CrashOrdering ==
  StartedConsistent =>
    /\ IsDoc(arch)
    /\ NoOrphans(arch, mods)

\* delete-module stopped after the unlink: the summary is still listed and
\* its details are gone.
C29_Witness ==
  /\ StartedConsistent /\ IsDelete(Last) /\ Last.pc = "writeArch"
  /\ Last.module.id \in DOMAIN Last.pre.mods
  /\ Last.module.id \notin DOMAIN mods
  /\ Last.module.id \in Ids(arch.modules)

\* set-module-details of a new name stopped after writeArchitecture: the
\* summary is listed and has no details yet.
C29_WitnessUpsert ==
  /\ StartedConsistent /\ IsUpsert(Last) /\ Last.pc = "writeMod"
  /\ Last.moduleId \notin Ids(Last.pre.arch.modules)
  /\ Last.moduleId \in Ids(arch.modules)
  /\ Last.moduleId \notin DOMAIN mods

\* ------------------------------------------------------------------ C30
Listed(name) == IsDoc(arch) /\ Find(arch.modules, name) # NoModule

\* Both slots hold a completed set-module-details; the two names differ,
\* each call started on an architecture that listed neither name, and
\* neither call had written its details when the other started: the two
\* calls ran concurrently.
TwoConcurrentUpserts ==
  /\ \A s \in Slots :
       /\ Returned(calls[s]) /\ IsUpsert(calls[s])
       /\ IsDoc(calls[s].pre.arch)
       /\ \A r \in Slots : Find(calls[s].pre.arch.modules, calls[r].name) = NoModule
  /\ calls[1].name # calls[2].name
  /\ calls[1].moduleId \notin DOMAIN calls[2].pre.mods
  /\ calls[2].moduleId \notin DOMAIN calls[1].pre.mods

\* C30 as stated: once two concurrent set-module-details calls for two
\* different new names have completed, the architecture lists both names,
\* whatever the interleaving of their file operations.
C30_Original ==
  TwoConcurrentUpserts => \A s \in Slots : Listed(calls[s].name)

\* C30 amended: once both calls have completed, the architecture lists at
\* least one of the two names, each listed one under the id its call
\* returned, and the details of both are stored under the ids returned.
\* Both names are not always listed: a call that read the architecture
\* before the other wrote it writes a list without the other's summary.
C30_LastWriterWins ==
  TwoConcurrentUpserts =>
    /\ \E s \in Slots : Listed(calls[s].name)
    /\ \A s \in Slots :
         /\ Listed(calls[s].name) =>
              Find(arch.modules, calls[s].name).id = calls[s].result.moduleId
         /\ calls[s].result.moduleId \in DOMAIN mods
         /\ IsDoc(mods[calls[s].result.moduleId])
         /\ mods[calls[s].result.moduleId].name = calls[s].name

\* The lost update: both calls have returned, one of the two names is not
\* listed, and the details of both are stored.
C30_Witness ==
  /\ TwoConcurrentUpserts
  /\ \E s \in Slots : ~Listed(calls[s].name)
  /\ \A s \in Slots : calls[s].result.moduleId \in DOMAIN mods

\* Both names are listed when the calls overlap less.
C30_WitnessBoth ==
  /\ TwoConcurrentUpserts
  /\ \A s \in Slots : Listed(calls[s].name)

\* ------------------------------------------------------------------ C31
\* C31: set-project-architecture writes architecture.json and nothing else
\* of the project's documents.  At every step of the call, its being issued
\* included, every details file and every script file stays as it is, and
\* listModules and listScripts return the same ids after the step as before
\* it (also when the step makes the modules directory).
C31_OnlyArchitecture ==
  [][calls'[1].op = "setArchitecture" =>
       /\ mods' = mods
       /\ scripts' = scripts
       /\ listModules' = listModules
       /\ listScripts' = listScripts
    ]_vars

\* set-project-architecture has replaced an architecture on a project that
\* holds a details file and a script file: both are still there.
C31_Witness ==
  /\ Returned(Last) /\ Last.op = "setArchitecture"
  /\ arch # Last.pre.arch
  /\ DOMAIN Last.pre.mods # {} /\ mods = Last.pre.mods
  /\ DOMAIN Last.pre.scripts # {} /\ scripts = Last.pre.scripts
  /\ listModules = DOMAIN mods /\ listScripts = DOMAIN scripts

\* ------------------------------------------------------------------ C32
\* The summaries other than the one with id `moduleId`, in list order.
Others(modules, moduleId) == SelectSeq(modules, LAMBDA m : m.id # moduleId)

\* The architecture without its module list and its updatedAt.
Frame(architecture) == [architecture EXCEPT !.modules = <<>>, !.updatedAt = 0]

\* The call issued last is a set-module-details or a delete-module that has
\* returned; Last.moduleId is the id of the module it was about (of the
\* summary found, or the id minted; 0 when delete-module found none).
TargetedCall == Returned(Last) /\ (IsUpsert(Last) \/ IsDelete(Last))

\* C32: set-module-details and delete-module change the module they are
\* about and no other.  Every other summary keeps all its fields and its
\* place among the others: a new summary is appended at the end, an updated
\* one stays where it was, a removed one leaves the rest in order.  The
\* architecture's projectId, description, dataFlow and createdAt stay, and
\* no details file of another module is written or removed.
C32_OnlyTheTarget ==
  TargetedCall =>
    LET target == Last.moduleId IN
    /\ \A id \in (DOMAIN mods \cup DOMAIN Last.pre.mods) \ {target} :
         /\ id \in DOMAIN mods /\ id \in DOMAIN Last.pre.mods
         /\ mods[id] = Last.pre.mods[id]
    /\ ~IsDoc(Last.pre.arch) => arch = Last.pre.arch
    /\ IsDoc(Last.pre.arch) =>
         LET before == Last.pre.arch.modules
             after == arch.modules
         IN
         /\ IsDoc(arch)
         /\ Frame(arch) = Frame(Last.pre.arch)
         /\ Others(after, target) = Others(before, target)
         /\ IsUpsert(Last) =>
              /\ target \in Ids(after)
              /\ target \in Ids(before) =>
                   /\ Len(after) = Len(before)
                   /\ \A i \in 1..Len(before) : after[i].id = before[i].id
              /\ target \notin Ids(before) =>
                   /\ Len(after) = Len(before) + 1
                   /\ after[Len(after)].id = target
                   /\ SubSeq(after, 1, Len(before)) = before
         /\ IsDelete(Last) =>
              /\ after = Others(before, target)
              /\ Last.result.kind = "deleted" => Len(after) = Len(before) - 1
              /\ Last.result.kind # "deleted" => arch = Last.pre.arch

\* set-module-details has appended a summary to a list that was not empty,
\* on a project that held details: the summaries and the details that
\* were there are as they were.
C32_Witness ==
  /\ TargetedCall /\ IsUpsert(Last) /\ IsDoc(Last.pre.arch)
  /\ Len(Last.pre.arch.modules) >= 1
  /\ Last.moduleId \notin Ids(Last.pre.arch.modules)
  /\ DOMAIN Last.pre.mods # {}
  /\ Len(arch.modules) = Len(Last.pre.arch.modules) + 1

\* delete-module has removed the first of two summaries: the second is left
\* with its details.
C32_WitnessDelete ==
  /\ TargetedCall /\ IsDelete(Last) /\ Last.result.kind = "deleted"
  /\ Len(Last.pre.arch.modules) = 2
  /\ Last.pre.arch.modules[1].id = Last.moduleId
  /\ arch.modules = <<Last.pre.arch.modules[2]>>
  /\ Last.pre.arch.modules[2].id \in DOMAIN mods

====
